---------------------------- MODULE Spec2Model ----------------------------
(***************************************************************************)
(* Model of connectivity/src/workers/pycomm3_worker.py: the polling engine *)
(* of the PyComm3 worker (PyComm3Worker and the stdin reader of main).     *)
(*                                                                         *)
(* Conventions.                                                            *)
(*  - Tag names and read tokens are tuples of one-character strings, so    *)
(*    that the name parsing of poll_group (index of the first bracket,     *)
(*    slices, int()) and the formatting of BASE[i] and BASE{N} are         *)
(*    computed, not assumed.                                               *)
(*  - A Python dict whose iteration order the code relies on is a sequence *)
(*    of <<key, value>> pairs (insertion ordered, overwrite in place); the *)
(*    other dicts are functions over their key sets.                       *)
(*  - A driver value is a record [k, v]: k is "none", "int", "nan" (a      *)
(*    non-finite float), "bool" or "str"; v is its magnitude.              *)
(*  - Time is in milliseconds, an integer.                                 *)
(***************************************************************************)
EXTENDS Integers, Sequences, FiniteSets, TLC

VARIABLES
    connected,                  \* self.connected (and self.plc is set)
    max_tags_per_group,         \* self.max_tags_per_group
    max_concurrent_connections, \* self.max_concurrent_connections
    polling,                    \* self.polling
    tag_map,                    \* self.tag_map: tag_id -> descriptor
    tag_configs,                \* self.tag_configs: tag_id -> change config
    poll_groups,                \* self.poll_groups: ordered dict, group_id -> group
    last_values,                \* self.last_values: tag_id -> record
    poll_tasks,                 \* self.poll_tasks: group_id -> task
    group_connections,          \* self.group_connections: group_id -> session
    tasks,                      \* the asyncio tasks running poll_group
    sessions,                   \* the LogixDriver objects made for groups
    stdout,                     \* telemetry frames written to stdout
    response,                   \* what the handler of the last request returned or raised
    serving,                    \* the loop of read_stdin_async is running
    reply,                      \* the line the last iteration of read_stdin_async printed
    now,                        \* the clock
    ARRAY_READ_MODE,            \* the module constant read from PYCOMM3_ARRAY_MODE
    hist                        \* history of the run (what the claims refer to)

vars == <<connected, max_tags_per_group, max_concurrent_connections, polling,
          tag_map, tag_configs, poll_groups, last_values, poll_tasks,
          group_connections, tasks, sessions, stdout, response, serving,
          reply, now, ARRAY_READ_MODE, hist>>

-----------------------------------------------------------------------------
(* Generic helpers *)

Max(a, b) == IF a >= b THEN a ELSE b

Abs(x) == IF x < 0 THEN -x ELSE x

SetMax(S) == CHOOSE x \in S : \A y \in S : y <= x

Range(s) == {s[i] : i \in 1..Len(s)}

RECURSIVE SeqSum(_)
SeqSum(s) == IF s = <<>> THEN 0 ELSE Head(s) + SeqSum(Tail(s))

RECURSIVE Flatten(_)
Flatten(ss) == IF ss = <<>> THEN <<>> ELSE Head(ss) \o Flatten(Tail(ss))

\* all sequences over S of length at most n
SeqsUpTo(S, n) == UNION {[1..k -> S] : k \in 0..n}

\* ordered dict (sequence of <<key, value>>)
DictHas(d, k) == \E i \in 1..Len(d) : d[i][1] = k

DictGet(d, k) == d[CHOOSE i \in 1..Len(d) : d[i][1] = k][2]

DictPut(d, k, v) ==
    IF DictHas(d, k)
    THEN [i \in 1..Len(d) |-> IF d[i][1] = k THEN <<k, v>> ELSE d[i]]
    ELSE Append(d, <<k, v>>)

DictKeys(d) == [i \in 1..Len(d) |-> d[i][1]]

\* function-as-dict helpers
FunPut(f, k, v) == [x \in DOMAIN f \cup {k} |-> IF x = k THEN v ELSE f[x]]

FunDel(f, k) == [x \in DOMAIN f \ {k} |-> f[x]]

EmptyFun == [x \in {} |-> 0]

Range_of_fun(f) == {f[x] : x \in DOMAIN f}

-----------------------------------------------------------------------------
(* Values and the sanitizer *)

None == [k |-> "none", v |-> 0]

IntVal(n) == [k |-> "int", v |-> n]

NaN == [k |-> "nan", v |-> 0]

\* float('inf') and float('-inf')
Inf == [k |-> "inf", v |-> 0]

StrVal(x) == [k |-> "str", v |-> x]

BoolVal(b) == [k |-> "bool", v |-> IF b THEN 1 ELSE 0]

\* isinstance(x, (int, float)): a Python bool is an int
IsNumeric(x) == x.k \in {"int", "bool"}

\* Python ==  on two values none of which is NaN
PyEq(a, b) ==
    IF IsNumeric(a) /\ IsNumeric(b) THEN a.v = b.v ELSE a = b

sanitize_value(value) == IF value.k \in {"nan", "inf"} THEN None ELSE value

-----------------------------------------------------------------------------
(* Change filter *)

DefaultConfig ==
    [on_change_enabled |-> FALSE, on_change_deadband |-> 0,
     on_change_deadband_type |-> "absolute", on_change_heartbeat_ms |-> 60000]

\* mutant of HeartbeatDue: no forced publish
HeartbeatDue_Never(config, last, t) == FALSE

\* the heartbeat arm of _has_value_changed
HeartbeatDue(config, last, t) ==
    /\ config.on_change_heartbeat_ms > 0
    /\ t - last.timestamp >= config.on_change_heartbeat_ms

\* mutant of ValueChanged: a change equal to the deadband is suppressed
ValueChanged_Strict(config, old_value, new_value) ==
    IF old_value = None \/ new_value = None
    THEN old_value # new_value
    ELSE IF config.on_change_deadband > 0
    THEN IF config.on_change_deadband_type = "percent"
         THEN Abs(new_value.v - old_value.v) * 100
                > config.on_change_deadband * (IF old_value.v # 0 THEN Abs(old_value.v) ELSE 1)
         ELSE Abs(new_value.v - old_value.v) > config.on_change_deadband
    ELSE ~ PyEq(old_value, new_value)

\* the comparison arms of _has_value_changed
ValueChanged(config, old_value, new_value) ==
    IF old_value = None \/ new_value = None
    THEN old_value # new_value
    ELSE IF IsNumeric(new_value) /\ IsNumeric(old_value)
    THEN IF config.on_change_deadband > 0
         THEN IF config.on_change_deadband_type = "percent"
              THEN LET base == IF old_value.v # 0 THEN Abs(old_value.v) ELSE 1
                   IN  ~ (Abs(new_value.v - old_value.v) * 100
                            < config.on_change_deadband * base)
              ELSE ~ (Abs(new_value.v - old_value.v) < config.on_change_deadband)
         ELSE ~ (old_value.v = new_value.v)
    ELSE ~ PyEq(old_value, new_value)

\* _has_value_changed(tag_id, new_value, new_quality), evaluated at time t
\* against the config table cfgs and the last-value cache lasts
HasValueChanged(cfgs, lasts, t, tag_id, new_value, new_quality) ==
    LET enabled == tag_id \in DOMAIN cfgs /\ cfgs[tag_id].on_change_enabled
    IN  IF ~ enabled THEN TRUE
        ELSE IF tag_id \notin DOMAIN lasts THEN TRUE
        ELSE IF lasts[tag_id].quality # new_quality THEN TRUE
        ELSE IF HeartbeatDue(cfgs[tag_id], lasts[tag_id], t) THEN TRUE
        ELSE ValueChanged(cfgs[tag_id], lasts[tag_id].value, new_value)

\* _update_last_value
UpdateLastValue(lasts, t, tag_id, value, quality) ==
    FunPut(lasts, tag_id, [value |-> value, quality |-> quality, timestamp |-> t])

-----------------------------------------------------------------------------
(* Tag names: parsing and formatting *)

Digits == <<"0", "1", "2", "3", "4", "5", "6", "7", "8", "9">>

IsDigit(c) == \E d \in 1..10 : Digits[d] = c

DigitVal(c) == (CHOOSE d \in 1..10 : Digits[d] = c) - 1

\* 'c' in s
Contains(s, c) == \E i \in 1..Len(s) : s[i] = c

\* s.index(c), as a 1-based position
IndexOf(s, c) == CHOOSE i \in 1..Len(s) : s[i] = c /\ \A j \in 1..(i-1) : s[j] # c

\* s[a:b] of Python for 1-based a..b inclusive, empty when b < a
Slice(s, a, b) == IF b < a THEN <<>> ELSE SubSeq(s, a, b)

\* int(s) succeeds (decimal digits only are modelled)
IsInt(s) == Len(s) > 0 /\ \A i \in 1..Len(s) : IsDigit(s[i])

RECURSIVE IntOf(_)
IntOf(s) == IF s = <<>> THEN 0
            ELSE IntOf(SubSeq(s, 1, Len(s) - 1)) * 10 + DigitVal(s[Len(s)])

\* str(n) for n >= 0
RECURSIVE IntToStr(_)
IntToStr(n) == IF n < 10 THEN <<Digits[n + 1]>>
               ELSE IntToStr(n \div 10) \o <<Digits[(n % 10) + 1]>>

\* tag_name[:tag_name.index('[')]
BaseName(tag_name) == Slice(tag_name, 1, IndexOf(tag_name, "[") - 1)

\* tag_name[tag_name.index('[')+1:tag_name.index(']')]
IndexStr(tag_name) ==
    Slice(tag_name, IndexOf(tag_name, "[") + 1, IndexOf(tag_name, "]") - 1)

\* the test of poll_group for "array element with a numeric index"
IsArrayElement(tag_name) ==
    /\ Contains(tag_name, "[")
    /\ Contains(tag_name, "]")
    /\ IsInt(IndexStr(tag_name))

\* f"{array_base}[{index}]"
ElementTag(array_base, index) == array_base \o <<"[">> \o IntToStr(index) \o <<"]">>

\* f"{array_base}{{{array_size}}}"
ArrayReadTag(array_base, array_size) ==
    array_base \o <<"{">> \o IntToStr(array_size) \o <<"}">>

-----------------------------------------------------------------------------
(* Batch planner: the part of a poll iteration before the read *)

\* the loop over tag_ids that fills individual_tags and array_tags;
\* acc = [individual_tags, array_tags]
RECURSIVE GroupTags(_, _, _)
GroupTags(tag_ids, tmap, acc) ==
    IF tag_ids = <<>> THEN acc
    ELSE LET tag_id == Head(tag_ids)
             rest   == Tail(tag_ids)
         IN  IF tag_id \notin DOMAIN tmap THEN GroupTags(rest, tmap, acc)
             ELSE LET tag_name == tmap[tag_id].tag_name
                  IN  IF IsArrayElement(tag_name)
                      THEN LET base_name == BaseName(tag_name)
                               index == IntOf(IndexStr(tag_name))
                               old == IF DictHas(acc.array_tags, base_name)
                                      THEN DictGet(acc.array_tags, base_name)
                                      ELSE <<>>
                           IN  GroupTags(rest, tmap,
                                 [acc EXCEPT !.array_tags =
                                    DictPut(acc.array_tags, base_name,
                                            DictPut(old, index, tag_id))])
                      ELSE GroupTags(rest, tmap,
                             [acc EXCEPT !.individual_tags =
                                DictPut(acc.individual_tags, tag_name, tag_id)])

\* a planner that reads whole arrays only above the thresholds
ReadWholeArray_Above(mode, num_requested, array_size) ==
    /\ mode # "individual"
    /\ (num_requested > 10 \/ num_requested * 10 > array_size)

\* the decision between one full-array read and sparse element reads
ReadWholeArray(mode, num_requested, array_size) ==
    /\ mode # "individual"
    /\ (num_requested >= 10 \/ num_requested * 10 >= array_size)

\* the sparse element requests of one array base
RECURSIVE ElementRequests(_, _, _)
ElementRequests(array_base, index_map, plan) ==
    IF index_map = <<>> THEN plan
    ELSE LET element_tag == ElementTag(array_base, Head(index_map)[1])
         IN  ElementRequests(array_base, Tail(index_map),
               [plan EXCEPT !.read_requests = Append(@, element_tag),
                            !.tag_name_to_id = DictPut(@, element_tag, Head(index_map)[2])])

\* the loop over array_tags that appends array reads to the plan
RECURSIVE ArrayRequests(_, _, _)
ArrayRequests(array_tags, mode, plan) ==
    IF array_tags = <<>> THEN plan
    ELSE LET array_base == Head(array_tags)[1]
             index_map  == Head(array_tags)[2]
             max_index  == SetMax(Range(DictKeys(index_map)))
             array_size == max_index + 1
             num_requested == Len(index_map)
         IN  IF ReadWholeArray(mode, num_requested, array_size)
             THEN ArrayRequests(Tail(array_tags), mode,
                    [plan EXCEPT !.read_requests =
                                    Append(@, ArrayReadTag(array_base, array_size)),
                                 !.array_base_to_info =
                                    DictPut(@, array_base,
                                      [index_map |-> index_map, array_size |-> array_size])])
             ELSE ArrayRequests(Tail(array_tags), mode,
                    ElementRequests(array_base, index_map, plan))

\* the requests of the individual tags
RECURSIVE IndividualRequests(_, _)
IndividualRequests(individual_tags, plan) ==
    IF individual_tags = <<>> THEN plan
    ELSE IndividualRequests(Tail(individual_tags),
           [plan EXCEPT !.read_requests = Append(@, Head(individual_tags)[1]),
                        !.tag_name_to_id =
                            DictPut(@, Head(individual_tags)[1], Head(individual_tags)[2])])

EmptyPlan == [read_requests |-> <<>>, tag_name_to_id |-> <<>>, array_base_to_info |-> <<>>]

\* the read plan of one poll iteration
BuildPlan(tag_ids, tmap, mode) ==
    LET g == GroupTags(tag_ids, tmap, [individual_tags |-> <<>>, array_tags |-> <<>>])
    IN  ArrayRequests(g.array_tags, mode, IndividualRequests(g.individual_tags, EmptyPlan))

-----------------------------------------------------------------------------
(* Subscription manager: subscribe_polling and stop_polling *)

\* a request field with the default that dict.get gives it
GetOr(rec, field, default) == IF field \in DOMAIN rec THEN rec[field] ELSE default

\* the loop "for tag in tags" building self.tag_map
RECURSIVE BuildTagMap(_, _)
BuildTagMap(tags, tmap) ==
    IF tags = <<>> THEN tmap
    ELSE LET tag == Head(tags)
         IN  BuildTagMap(Tail(tags),
               FunPut(tmap, tag.tag_id,
                      [tag_id |-> tag.tag_id, tag_name |-> tag.tag_name,
                       poll_group_id |-> tag.poll_group_id]))

\* the loop "for tag in tags" updating self.tag_configs
RECURSIVE BuildTagConfigs(_, _)
BuildTagConfigs(tags, cfgs) ==
    IF tags = <<>> THEN cfgs
    ELSE LET tag == Head(tags)
         IN  BuildTagConfigs(Tail(tags),
               FunPut(cfgs, tag.tag_id,
                 [on_change_enabled |-> GetOr(tag, "on_change_enabled", FALSE),
                  on_change_deadband |-> GetOr(tag, "on_change_deadband", 0),
                  on_change_deadband_type |->
                      GetOr(tag, "on_change_deadband_type", "absolute"),
                  on_change_heartbeat_ms |->
                      GetOr(tag, "on_change_heartbeat_ms", 60000)]))

\* tag_ids[i:i + limit] for the chunk number j (from 0)
ChunkSlice(tag_ids, j, limit) ==
    Slice(tag_ids, j * limit + 1,
          IF (j + 1) * limit < Len(tag_ids) THEN (j + 1) * limit ELSE Len(tag_ids))

\* len(range(0, n, limit))
RangeLen(n, limit) == (n + limit - 1) \div limit

\* [tag_ids[i:i + limit] for i in range(0, len(tag_ids), limit)]
TagChunks(tag_ids, limit) ==
    [j \in 1..RangeLen(Len(tag_ids), limit) |-> ChunkSlice(tag_ids, j - 1, limit)]

\* mutant of NeedsSplit: the comparison is off by one
NeedsSplit_OffByOne(tag_ids, limit) == Len(tag_ids) > limit + 1

\* the test that sends a requested group to the splitting branch
NeedsSplit(tag_ids, limit) == Len(tag_ids) > limit

\* the group entry stored in self.poll_groups
GroupEntry(rate_ms, tag_ids, tmap) ==
    [rate_ms |-> rate_ms, tag_ids |-> tag_ids,
     tags |-> SelectSeq(tag_ids, LAMBDA tid : tid \in DOMAIN tmap)]

\* mutant of ChunkGroupId: the first chunk does not keep the requested id
ChunkGroupId_AlwaysFresh(i, group_id, next_group_id) == next_group_id

\* group id given to chunk number i (from 0) of a split group
ChunkGroupId(i, group_id, next_group_id) == IF i = 0 THEN group_id ELSE next_group_id

\* the loop "for i, chunk in enumerate(tag_chunks)";
\* st = [groups, next_group_id]
RECURSIVE InstallChunks(_, _, _, _, _, _)
InstallChunks(tag_chunks, i, group_id, rate_ms, tmap, st) ==
    IF i >= Len(tag_chunks) THEN st
    ELSE LET chunk_group_id == ChunkGroupId(i, group_id, st.next_group_id)
         IN  InstallChunks(tag_chunks, i + 1, group_id, rate_ms, tmap,
               [groups |-> DictPut(st.groups, chunk_group_id,
                                   GroupEntry(rate_ms, tag_chunks[i + 1], tmap)),
                next_group_id |-> IF i > 0 THEN st.next_group_id + 1
                                  ELSE st.next_group_id])

\* the loop "for group_id_str, group_info in poll_groups.items()"
RECURSIVE InstallGroups(_, _, _, _)
InstallGroups(req_groups, limit, tmap, st) ==
    IF req_groups = <<>> THEN st
    ELSE LET g == Head(req_groups)
         IN  InstallGroups(Tail(req_groups), limit, tmap,
               IF NeedsSplit(g.tag_ids, limit)
               THEN InstallChunks(TagChunks(g.tag_ids, limit), 0, g.group_id,
                                  g.rate_ms, tmap, st)
               ELSE [st EXCEPT !.groups =
                        DictPut(@, g.group_id, GroupEntry(g.rate_ms, g.tag_ids, tmap))])

\* mutant of BuildPollGroups: the ids of the extra chunks start above the
\* number of requested groups, not above their greatest id
BuildPollGroups_FromCount(req_groups, limit, tmap) ==
    InstallGroups(req_groups, limit, tmap,
                  [groups |-> <<>>, next_group_id |-> Len(req_groups) + 1]).groups

\* self.poll_groups as subscribe_polling builds it
BuildPollGroups(req_groups, limit, tmap) ==
    LET first_id == IF req_groups = <<>> THEN 1
                    ELSE SetMax({req_groups[i].group_id : i \in 1..Len(req_groups)}) + 1
    IN  InstallGroups(req_groups, limit, tmap,
                      [groups |-> <<>>, next_group_id |-> first_id]).groups

-----------------------------------------------------------------------------
(* Program constants and the state after construction *)

DEFAULT_MAX_TAGS_PER_GROUP == 500

DEFAULT_MAX_CONCURRENT_CONNECTIONS == 8

\* the clock advances in steps of one second
TickMs == 1000

NoRequest == [tags |-> <<>>, poll_groups |-> <<>>]

NoResponse == [method |-> "none", error |-> 0]

\* no line printed
NoReply == [jsonrpc |-> "none"]

\* PyComm3Worker.__init__, in a process started with PYCOMM3_ARRAY_MODE = mode
InitMode(mode) ==
    /\ ARRAY_READ_MODE = mode
    /\ connected = FALSE
    /\ max_tags_per_group = DEFAULT_MAX_TAGS_PER_GROUP
    /\ max_concurrent_connections = DEFAULT_MAX_CONCURRENT_CONNECTIONS
    /\ polling = FALSE
    /\ tag_map = EmptyFun
    /\ tag_configs = EmptyFun
    /\ poll_groups = <<>>
    /\ last_values = EmptyFun
    /\ poll_tasks = EmptyFun
    /\ group_connections = EmptyFun
    /\ tasks = EmptyFun
    /\ sessions = EmptyFun
    /\ stdout = <<>>
    /\ response = NoResponse
    /\ serving = TRUE
    /\ reply = NoReply
    /\ now = 0
    /\ hist = [req |-> NoRequest, limit |-> DEFAULT_MAX_TAGS_PER_GROUP,
               ev |-> [kind |-> "init"], last_frame |-> EmptyFun,
               superseded |-> {}, installs |-> 0]

\* the default array mode
Init == InitMode("batch")

-----------------------------------------------------------------------------
(* Tasks *)

\* bound on the tasks alive at once
MaxTasks == 4

\* mutant of NewTask: the coroutine is run to its end when the task is created
NewTask_RunAtOnce(group_id) ==
    [group_id |-> group_id, pc |-> "done", cancelled |-> FALSE]

\* a task created by loop.create_task(worker.poll_group(group_id)), not yet run
NewTask(group_id) ==
    [group_id |-> group_id, pc |-> "new", cancelled |-> FALSE]

\* a finished task: only task.done() can still be asked of it
DoneTask(group_id) ==
    [group_id |-> group_id, pc |-> "done", cancelled |-> FALSE]

\* mutant of CancelTask: cancel() has no effect
CancelTask_Ignored(task) == task

\* task.cancel() on a task that is not done: CancelledError is thrown into the
\* coroutine at the await it is suspended on; a task that never ran ends
\* without running any of its body
CancelTask(task) ==
    IF task.pc = "new" THEN DoneTask(task.group_id)
    ELSE [group_id |-> task.group_id, pc |-> task.pc, cancelled |-> TRUE]

\* mutant of CancelPollTasks: only the tasks that never ran are cancelled
CancelPollTasks_NewOnly(tsk, ptasks) ==
    [t \in DOMAIN tsk |->
        IF t \in Range_of_fun(ptasks) /\ tsk[t].pc = "new"
        THEN DoneTask(tsk[t].group_id) ELSE tsk[t]]

\* the loop of stop_polling over self.poll_tasks
CancelPollTasks(tsk, ptasks) ==
    [t \in DOMAIN tsk |->
        IF t \in Range_of_fun(ptasks) /\ tsk[t].pc # "done"
        THEN CancelTask(tsk[t]) ELSE tsk[t]]

\* tasks that are done and that self.poll_tasks no longer holds are garbage
CollectTasks(tsk, ptasks) ==
    [t \in {u \in DOMAIN tsk : tsk[u].pc # "done" \/ u \in Range_of_fun(ptasks)}
        |-> tsk[t]]

\* the n smallest ids not used in tsk
RECURSIVE FreshIds(_, _, _)
FreshIds(used, n, from) ==
    IF n = 0 THEN <<>>
    ELSE IF from \in used THEN FreshIds(used, n, from + 1)
    ELSE <<from>> \o FreshIds(used, n - 1, from + 1)

-----------------------------------------------------------------------------
(* RPC handlers, as one iteration of read_stdin_async runs them *)

\* mutant of CloseGroupSessions: the sessions are forgotten without a close
CloseGroupSessions_Forgets(sess, conns) == sess

\* the sessions left after stop_polling closed every registered one
CloseGroupSessions(sess, conns) ==
    [x \in DOMAIN sess \ Range_of_fun(conns) |-> sess[x]]

\* the tasks left after stop_polling (self.poll_tasks is then empty)
StoppedTasks == CollectTasks(CancelPollTasks(tasks, poll_tasks), EmptyFun)

\* the runners alive when a subscribe_polling or stop_polling returns
Superseded(tsk) == {t \in DOMAIN tasks \cap DOMAIN tsk : tasks[t].pc # "done"}

RpcEvent(method, ok) == [kind |-> "rpc", method |-> method, ok |-> ok]

\* a dispatcher that answers every request with id null
Envelope_NullId(req_id, outcome) ==
    IF outcome.error = 0
    THEN [jsonrpc |-> "2.0", result |-> outcome, id |-> None]
    ELSE [jsonrpc |-> "2.0",
          error |-> [code |-> -32000, message |-> outcome.message],
          id |-> None]

\* the response handle_request builds from what the handler did: its result
\* under "result", or the message of the exception it raised under "error"
\* with code -32000; both carry the id of the request
Envelope(req_id, outcome) ==
    IF outcome.error = 0
    THEN [jsonrpc |-> "2.0", result |-> outcome, id |-> req_id]
    ELSE [jsonrpc |-> "2.0",
          error |-> [code |-> -32000, message |-> outcome.message],
          id |-> req_id]

\* one iteration of read_stdin_async for a line that holds a request object
\* with id req_id for a known method: the handler runs inside handle_request
\* and the response is printed
Serve(req_id, handler) ==
    /\ serving
    /\ handler
    /\ reply' = Envelope(req_id, response')
    /\ UNCHANGED serving

\* the id of the requests whose id no claim looks at
FirstId == IntVal(1)

\* bound on the count kept of the subscribe_polling and stop_polling calls
MaxInstalls == 2

\* the count of the calls that installed or removed a subscription, up to
\* MaxInstalls
CountInstall(n) == IF n < MaxInstalls THEN n + 1 ELSE n

\* connect(params): host is given; limit and cap are the request's
\* max_tags_per_group and max_concurrent_connections
connect(limit, cap, opened) ==
    /\ max_tags_per_group' = limit
    /\ max_concurrent_connections' = cap
    /\ connected' = opened
    /\ response' = IF opened THEN [method |-> "connect", error |-> 0]
                   ELSE [method |-> "connect", error |-> -32000,
                         message |-> "Failed to connect"]
    /\ hist' = [hist EXCEPT !.ev = RpcEvent("connect", opened)]
    /\ UNCHANGED <<polling, tag_map, tag_configs, poll_groups, last_values,
                   poll_tasks, group_connections, tasks, sessions, stdout, now,
                   ARRAY_READ_MODE>>

\* a connect request served
RpcConnect(limit, cap, opened) == Serve(FirstId, connect(limit, cap, opened))

\* mutant of disconnect: the last-value cache survives
disconnect_KeepsCache ==
    /\ connected' = FALSE
    /\ response' = [method |-> "disconnect", error |-> 0]
    /\ hist' = [hist EXCEPT !.ev = RpcEvent("disconnect", TRUE)]
    /\ UNCHANGED <<max_tags_per_group, max_concurrent_connections, polling,
                   tag_map, tag_configs, poll_groups, poll_tasks, last_values,
                   group_connections, tasks, sessions, stdout, now,
                   ARRAY_READ_MODE>>

\* disconnect(params)
disconnect ==
    /\ connected' = FALSE
    /\ last_values' = EmptyFun
    /\ response' = [method |-> "disconnect", error |-> 0]
    /\ hist' = [hist EXCEPT !.ev = RpcEvent("disconnect", TRUE)]
    /\ UNCHANGED <<max_tags_per_group, max_concurrent_connections, polling,
                   tag_map, tag_configs, poll_groups, poll_tasks,
                   group_connections, tasks, sessions, stdout, now,
                   ARRAY_READ_MODE>>

\* a disconnect request served
RpcDisconnect == Serve(FirstId, disconnect)

\* what group_plc.close() can do: return, raise an error whose text holds
\* "forward_close" or "failed to parse reply", or raise any other Exception
CloseOutcomes == {"ok", "forward_close", "other"}

\* a stop_polling that gives up on the sessions once a close raises: they
\* are left as they are, and registered
StopPollingResult_GivesUp(closes) ==
    IF \A g \in DOMAIN group_connections : closes[g] = "ok"
    THEN [sess  |-> CloseGroupSessions(sessions, group_connections),
          conns |-> EmptyFun,
          error |-> 0]
    ELSE [sess  |-> sessions, conns |-> group_connections, error |-> 0]

\* the loop of stop_polling over self.group_connections, close() of group g
\* doing closes[g], and what follows it: a session closed is gone, one whose
\* close raised a forward_close error has its references nulled, one whose
\* close raised anything else is left as it is; none stays registered
StopPollingResult(closes) ==
    [sess  |-> [x \in {y \in DOMAIN sessions :
                         \A g \in DOMAIN group_connections :
                            group_connections[g] = y => closes[g] # "ok"} |->
                  IF \E g \in DOMAIN group_connections :
                        group_connections[g] = x /\ closes[g] = "forward_close"
                  THEN "reset"
                  ELSE IF \E g \in DOMAIN group_connections : group_connections[g] = x
                  THEN "unclosed"
                  ELSE sessions[x]],
     conns |-> EmptyFun,
     error |-> 0]

\* stop_polling(params), close() of the session of group g doing closes[g]
stop_polling(closes) ==
    /\ polling' = FALSE
    /\ tasks' = StoppedTasks
    /\ poll_tasks' = EmptyFun
    /\ sessions' = StopPollingResult(closes).sess
    /\ group_connections' = StopPollingResult(closes).conns
    /\ response' = [method |-> "stop_polling",
                    error |-> StopPollingResult(closes).error]
    /\ hist' = [hist EXCEPT !.ev = RpcEvent("stop_polling",
                                            StopPollingResult(closes).error = 0),
                            !.superseded = Superseded(StoppedTasks),
                            !.installs = CountInstall(@)]
    /\ UNCHANGED <<connected, max_tags_per_group, max_concurrent_connections,
                   tag_map, tag_configs, poll_groups, last_values, stdout, now,
                   ARRAY_READ_MODE>>

\* a stop_polling request served
StopPollingWith(closes) == Serve(FirstId, stop_polling(closes))

\* a stop_polling request served when every close() returns
RpcStopPolling == StopPollingWith([g \in DOMAIN group_connections |-> "ok"])

\* mutant of GroupWarnings: a subscription that just reaches the cap is warned
GroupWarnings_AtCap(groups, cap) ==
    IF Len(groups) >= cap THEN <<[connections |-> Len(groups), limit |-> cap]>>
    ELSE <<>>

\* the warnings of subscribe_polling
GroupWarnings(groups, cap) ==
    IF Len(groups) > cap THEN <<[connections |-> Len(groups), limit |-> cap]>>
    ELSE <<>>

\* the result of subscribe_polling: the warnings field exists only when there
\* is a warning
SubscribeResult(tmap, groups, group_warnings) ==
    IF group_warnings # <<>>
    THEN [method |-> "subscribe_polling", error |-> 0, success |-> TRUE,
          tag_count |-> Cardinality(DOMAIN tmap),
          group_count |-> Len(groups),
          warnings |-> group_warnings]
    ELSE [method |-> "subscribe_polling", error |-> 0, success |-> TRUE,
          tag_count |-> Cardinality(DOMAIN tmap),
          group_count |-> Len(groups)]

\* mutant of SubscribeNotConnected: the running subscription is stopped before
\* the connection is tested
SubscribeNotConnected_StopsFirst ==
    /\ ~ connected
    /\ response' = [method |-> "subscribe_polling", error |-> -32000,
                    message |-> "Not connected to PLC"]
    /\ hist' = [hist EXCEPT !.ev = RpcEvent("subscribe_polling", FALSE),
                            !.superseded = Superseded(StoppedTasks)]
    /\ polling' = FALSE
    /\ tasks' = StoppedTasks
    /\ poll_tasks' = EmptyFun
    /\ sessions' = CloseGroupSessions(sessions, group_connections)
    /\ group_connections' = EmptyFun
    /\ UNCHANGED <<connected, max_tags_per_group, max_concurrent_connections,
                   tag_map, tag_configs, poll_groups, last_values, stdout, now,
                   ARRAY_READ_MODE>>

\* subscribe_polling(params) called while not connected: ConnectionError
SubscribeNotConnected ==
    /\ ~ connected
    /\ response' = [method |-> "subscribe_polling", error |-> -32000,
                    message |-> "Not connected to PLC"]
    /\ hist' = [hist EXCEPT !.ev = RpcEvent("subscribe_polling", FALSE)]
    /\ UNCHANGED <<connected, max_tags_per_group, max_concurrent_connections,
                   polling, tag_map, tag_configs, poll_groups, last_values,
                   poll_tasks, group_connections, tasks, sessions, stdout, now,
                   ARRAY_READ_MODE>>

\* subscribe_polling(params) with params = req, its response, and the tasks
\* that read_stdin_async creates for the installed groups
SubscribeInstall(req) ==
    LET tmap   == BuildTagMap(req.tags, EmptyFun)
        groups == BuildPollGroups(req.poll_groups, max_tags_per_group, tmap)
        gids   == DictKeys(groups)
        ids    == FreshIds(DOMAIN StoppedTasks, Len(gids), 1)
    IN  /\ connected
        /\ Cardinality(DOMAIN StoppedTasks) + Len(gids) <= MaxTasks
        /\ polling' = TRUE
        /\ tag_map' = tmap
        /\ tag_configs' = BuildTagConfigs(req.tags, tag_configs)
        /\ poll_groups' = groups
        /\ sessions' = CloseGroupSessions(sessions, group_connections)
        /\ group_connections' = EmptyFun
        /\ poll_tasks' = [g \in Range(gids) |->
                            ids[CHOOSE i \in 1..Len(gids) : gids[i] = g]]
        /\ tasks' = [t \in DOMAIN StoppedTasks \cup Range(ids) |->
                        IF t \in DOMAIN StoppedTasks THEN StoppedTasks[t]
                        ELSE NewTask(gids[CHOOSE i \in 1..Len(ids) : ids[i] = t])]
        /\ response' = SubscribeResult(tmap, groups,
                            GroupWarnings(groups, max_concurrent_connections))
        /\ hist' = [hist EXCEPT !.ev = RpcEvent("subscribe_polling", TRUE),
                                !.req = req,
                                !.limit = max_tags_per_group,
                                !.superseded = Superseded(StoppedTasks),
                                !.installs = CountInstall(@)]
        /\ UNCHANGED <<connected, max_tags_per_group, max_concurrent_connections,
                       last_values, stdout, now, ARRAY_READ_MODE>>

\* subscribe_polling(params) and the creation of the tasks
subscribe_polling(req) == SubscribeNotConnected \/ SubscribeInstall(req)

\* a subscribe_polling request served
RpcSubscribePolling(req) == Serve(FirstId, subscribe_polling(req))

-----------------------------------------------------------------------------
(* The subscription manager alone: connect and subscribe_polling over      *)
(* every small request                                                      *)

\* total number of tag_ids a request lists in its groups
MaxLen == 3

\* max_tags_per_group values given to connect
MaxLimit == 2

\* the tag_ids of the request's tags
TagIdsSub == {1, 2}

\* the tag_ids its groups may list: 3 is the id of no tag of the request
TagSymsSub == {1, 2, 3}

\* the group ids of a request
GroupIdsSub == {1, 2}

TagsSub ==
    [i \in TagIdsSub |->
        [tag_id |-> i, tag_name |-> <<"T">> \o IntToStr(i), poll_group_id |-> 1]]

\* the keys of a JSON object are distinct
DistinctGroupIds(gids) ==
    \A i, j \in 1..Len(gids) : i # j => gids[i] # gids[j]

\* the ways to cut a list of n items into k consecutive parts: the end
\* positions of the parts
Cuts(n, k) ==
    {c \in [1..k -> 0..n] :
        /\ k > 0 => c[k] = n
        /\ \A i \in 1..(k - 1) : c[i] <= c[i + 1]}

\* k groups with the ids gids, holding the parts of the list flat cut at c
GroupsOf(gids, flat, c) ==
    [i \in 1..Len(gids) |->
        [group_id |-> gids[i], rate_ms |-> gids[i] * TickMs,
         tag_ids |-> Slice(flat, (IF i = 1 THEN 0 ELSE c[i - 1]) + 1, c[i])]]

PollGroupsSub ==
    {<<>>} \cup
    UNION {UNION {{GroupsOf(gids, flat, c) : c \in Cuts(Len(flat), Len(gids))} :
                    flat \in SeqsUpTo(TagSymsSub, MaxLen)} :
             gids \in {g \in SeqsUpTo(GroupIdsSub, Cardinality(GroupIdsSub)) :
                          Len(g) > 0 /\ DistinctGroupIds(g)}}

ReqsSub == {[tags |-> TagsSub, poll_groups |-> pg] : pg \in PollGroupsSub}

\* requests sent over a subscription that is already installed
ReqsAgain ==
    {r \in ReqsSub : /\ Len(r.poll_groups) = 1
                     /\ r.poll_groups[1].group_id = 1
                     /\ r.poll_groups[1].tag_ids \in {<<1>>, <<1, 3, 1>>}}

NextSub ==
    \/ \E limit \in 1..MaxLimit : RpcConnect(limit, DEFAULT_MAX_CONCURRENT_CONNECTIONS, TRUE)
    \/ \E req \in (IF hist.req = NoRequest THEN ReqsSub ELSE ReqsAgain) :
          hist.installs < MaxInstalls /\ RpcSubscribePolling(req)

SpecSub == Init /\ [][NextSub]_vars

\* a subscribe_polling has been accepted
Installed == hist.req # NoRequest

InstalledTagIds(i) == poll_groups[i][2].tag_ids

RequestTagIds == {hist.req.tags[i].tag_id : i \in 1..Len(hist.req.tags)}

\* C1: after subscribe_polling returned success, the tag_ids of the installed
\* groups partition the tags of the request: their union is the set of the
\* request's tag_ids and no tag_id is in two groups.
C1_GroupsPartitionTags ==
    Installed =>
        /\ UNION {Range(InstalledTagIds(i)) : i \in 1..Len(poll_groups)} = RequestTagIds
        /\ \A i, j \in 1..Len(poll_groups) :
              i # j => Range(InstalledTagIds(i)) \cap Range(InstalledTagIds(j)) = {}

\* C2: every installed group holds at most max_tags_per_group tag_ids, the
\* limit being the one in force when its subscribe_polling ran.
C2_GroupSizeWithinLimit ==
    \A i \in 1..Len(poll_groups) : Len(InstalledTagIds(i)) <= hist.limit

\* C2 witness: a group was split at a limit of 2 or more, and a later connect
\* has lowered the limit below the size of an installed group.
C2_Witness ==
    /\ Installed
    /\ hist.limit >= 2
    /\ \E k \in 1..Len(hist.req.poll_groups) :
          Len(hist.req.poll_groups[k].tag_ids) > hist.limit
    /\ \E i \in 1..Len(poll_groups) : Len(InstalledTagIds(i)) > max_tags_per_group

\* number of chunks a requested list of n tag_ids is cut into at limit m
ChunksExpected(n, m) ==
    IF n = 0 THEN 1 ELSE CHOOSE c \in 1..n : c * m >= n /\ (c - 1) * m < n

ChunksOfRequested(k) ==
    ChunksExpected(Len(hist.req.poll_groups[k].tag_ids), hist.limit)

\* the installed groups made for the k-th requested group, in creation order
ChunksInstalledFor(k) ==
    LET before == SeqSum([j \in 1..(k - 1) |-> ChunksOfRequested(j)])
    IN  [c \in 1..ChunksOfRequested(k) |-> poll_groups[before + c]]

\* C3: each requested group is replaced by chunks that are consecutive slices
\* of its tag_ids: all but the last have max_tags_per_group ids, their
\* concatenation in creation order is the requested list, the first keeps the
\* requested group id, all have the requested rate_ms, and group_count is the
\* sum over the requested groups of ceil(len(tag_ids) / max_tags_per_group),
\* at least 1 per group.
C3_ChunksAreConsecutiveSlices ==
    Installed =>
        LET R == hist.req.poll_groups
            total == SeqSum([k \in 1..Len(R) |-> ChunksOfRequested(k)])
        IN  /\ Len(poll_groups) = total
            /\ (hist.ev = RpcEvent("subscribe_polling", TRUE)
                    => response.group_count = total)
            /\ \A k \in 1..Len(R) :
                  LET cs == ChunksInstalledFor(k)
                  IN  /\ Flatten([c \in 1..Len(cs) |-> cs[c][2].tag_ids]) = R[k].tag_ids
                      /\ \A c \in 1..(Len(cs) - 1) :
                            Len(cs[c][2].tag_ids) = hist.limit
                      /\ cs[1][1] = R[k].group_id
                      /\ \A c \in 1..Len(cs) : cs[c][2].rate_ms = R[k].rate_ms

\* C3 witness: subscribe_polling has just returned for a request of two
\* groups, the first of which was cut into a full chunk and a shorter one.
C3_Witness ==
    /\ hist.ev = RpcEvent("subscribe_polling", TRUE)
    /\ Len(hist.req.poll_groups) = 2
    /\ hist.limit = 2
    /\ Len(hist.req.poll_groups[1].tag_ids) = 3
    /\ response.group_count = 3

-----------------------------------------------------------------------------
(* The driver, as poll_group uses it *)

\* a request token of the form BASE{N}
IsCountToken(token) ==
    Len(token) > 0 /\ token[Len(token)] = "}" /\ Contains(token, "{")

\* the tag attribute of a result: the driver strips {N} from the token
ResultTag(token) ==
    IF IsCountToken(token) THEN Slice(token, 1, IndexOf(token, "{") - 1) ELSE token

\* the element count N of a token BASE{N}
CountOf(token) == IntOf(Slice(token, IndexOf(token, "{") + 1, Len(token) - 1))

ListVal(items) == [k |-> "list", v |-> items]

\* the results the driver can give for one token: an error, a scalar drawn
\* from vals, or for BASE{N} a list of N values (of N - 1 when short lists
\* are admitted)
TokenResults(token, vals, short) ==
    {[tag |-> ResultTag(token), error |-> TRUE, value |-> None]} \cup
    (IF IsCountToken(token)
     THEN {[tag |-> ResultTag(token), error |-> FALSE, value |-> ListVal(items)] :
             items \in UNION {[1..n -> vals] :
                        n \in {CountOf(token)} \cup
                              (IF short THEN {CountOf(token) - 1} ELSE {})}}
     ELSE {[tag |-> ResultTag(token), error |-> FALSE, value |-> x] : x \in vals})

\* the result lists the driver can give for a batch read, aligned with it
RECURSIVE BatchResults(_, _, _)
BatchResults(read_requests, vals, short) ==
    IF read_requests = <<>> THEN {<<>>}
    ELSE {<<r>> \o rest : r \in TokenResults(Head(read_requests), vals, short),
                          rest \in BatchResults(Tail(read_requests), vals, short)}

-----------------------------------------------------------------------------
(* Emission: the loop "for result in results" of poll_group *)

\* mutant of Frame: the line is cut before its end
Frame_Torn(tag_id, v, q, ts) == [tag_id |-> tag_id, v |-> v]

\* the telemetry line of one sample
Frame(tag_id, v, q, ts) == [tag_id |-> tag_id, v |-> v, q |-> q, ts |-> ts]

\* the state threaded through the emission loop; filtered[i] tells whether
\* _has_value_changed was called for samples[i]
EmitState(lasts) ==
    [frames |-> <<>>, lasts |-> lasts, samples |-> <<>>, filtered |-> <<>>,
     raised |-> FALSE]

\* one sample passed through _has_value_changed; on publish the frame is
\* printed and the last-value record updated
FilterAndEmit(st, cfgs, t, ts, tag_id, value, q) ==
    IF HasValueChanged(cfgs, st.lasts, t, tag_id, value, q)
    THEN [st EXCEPT !.frames = Append(@, Frame(tag_id, value, q, ts)),
                    !.lasts = UpdateLastValue(@, t, tag_id, value, q),
                    !.samples = Append(@, [tag_id |-> tag_id, v |-> value, q |-> q,
                                           published |-> TRUE]),
                    !.filtered = Append(@, TRUE)]
    ELSE [st EXCEPT !.samples = Append(@, [tag_id |-> tag_id, v |-> value, q |-> q,
                                           published |-> FALSE]),
                    !.filtered = Append(@, TRUE)]

\* the branch of a full-array result flagged in error: a bad-quality frame
\* for every element of the index map
RECURSIVE EmitArrayError(_, _, _)
EmitArrayError(st, index_map, ts) ==
    IF index_map = <<>> THEN st
    ELSE EmitArrayError(
           [st EXCEPT !.frames = Append(@, Frame(Head(index_map)[2], None, 1, ts)),
                      !.samples = Append(@, [tag_id |-> Head(index_map)[2], v |-> None,
                                             q |-> 1, published |-> TRUE]),
                      !.filtered = Append(@, FALSE)],
           Tail(index_map), ts)

\* the branch of a full-array result read without error
RECURSIVE EmitArrayValues(_, _, _, _, _, _)
EmitArrayValues(st, index_map, array_values, cfgs, t, ts) ==
    IF index_map = <<>> THEN st
    ELSE LET index  == Head(index_map)[1]
             tag_id == Head(index_map)[2]
             value  == IF index < Len(array_values)
                       THEN sanitize_value(array_values[index + 1]) ELSE None
         IN  EmitArrayValues(FilterAndEmit(st, cfgs, t, ts, tag_id, value, 0),
                             Tail(index_map), array_values, cfgs, t, ts)

\* one result of the batch
EmitResult(st, result, plan, cfgs, t, ts) ==
    IF DictHas(plan.array_base_to_info, result.tag)
    THEN LET index_map == DictGet(plan.array_base_to_info, result.tag).index_map
         IN  IF result.error THEN EmitArrayError(st, index_map, ts)
             ELSE IF result.value.k # "list"
                  THEN [st EXCEPT !.raised = TRUE]   \* len() of a scalar: TypeError
                  ELSE EmitArrayValues(st, index_map, result.value.v, cfgs, t, ts)
    ELSE IF ~ DictHas(plan.tag_name_to_id, result.tag) THEN st
         ELSE LET tag_id == DictGet(plan.tag_name_to_id, result.tag)
              IN  IF result.error
                  THEN FilterAndEmit(st, cfgs, t, ts, tag_id, None, 1)
                  ELSE FilterAndEmit(st, cfgs, t, ts, tag_id,
                                     sanitize_value(result.value), 0)

\* the whole loop; an exception raised by a result ends it
RECURSIVE EmitResults(_, _, _, _, _, _)
EmitResults(st, results, plan, cfgs, t, ts) ==
    IF results = <<>> \/ st.raised THEN st
    ELSE EmitResults(EmitResult(st, Head(results), plan, cfgs, t, ts),
                     Tail(results), plan, cfgs, t, ts)

-----------------------------------------------------------------------------
(* Poll group runner: poll_group, one action per stretch between awaits *)

max_retries == 3

\* retry_delay = 1.0 s
retry_delay_ms == 1000

\* asyncio.sleep(2.0) before the session is recreated
recovery_delay_ms == 2000

\* bound on the driver sessions open at once
MaxSessions == 3

\* number of lines of stdout that are kept: the most recent ones
MaxOut == 3

\* the last MaxOut lines of a log
Window(log) == IF Len(log) <= MaxOut THEN log
               ELSE SubSeq(log, Len(log) - MaxOut + 1, Len(log))

\* the locals of a runner whose session is open
RunTask(group_id, rate_ms, tag_ids, group_plc, next_poll) ==
    [group_id |-> group_id, pc |-> "loop", cancelled |-> FALSE,
     rate_ms |-> rate_ms, tag_ids |-> tag_ids, group_plc |-> group_plc,
     attempt |-> 0, next_poll |-> next_poll, wake_at |-> 0,
     plan |-> EmptyPlan, timestamp |-> 0]

\* mutant of RetryTask: every attempt waits the same retry_delay
RetryTask_FixedDelay(group_id, rate_ms, tag_ids, attempt) ==
    [RunTask(group_id, rate_ms, tag_ids, 0, 0) EXCEPT
        !.pc = "retry_sleep", !.attempt = attempt,
        !.wake_at = now + retry_delay_ms]

\* the locals of a runner waiting before its next attempt to open a session
RetryTask(group_id, rate_ms, tag_ids, attempt) ==
    [RunTask(group_id, rate_ms, tag_ids, 0, 0) EXCEPT
        !.pc = "retry_sleep", !.attempt = attempt,
        !.wake_at = now + retry_delay_ms * attempt]

\* the head of the while loop down to its first await: the plan is built and
\* either the batch read is submitted to the executor or, with an empty plan,
\* the runner sleeps one period
LoopTop(task) ==
    IF ~ polling THEN DoneTask(task.group_id)
    ELSE LET plan == BuildPlan(task.tag_ids, tag_map, ARRAY_READ_MODE)
         IN  IF plan.read_requests = <<>>
             THEN [task EXCEPT !.pc = "idle_sleep", !.wake_at = now + task.rate_ms,
                               !.plan = EmptyPlan, !.timestamp = 0]
             ELSE [task EXCEPT !.pc = "reading", !.wake_at = 0,
                               !.plan = plan, !.timestamp = now]

\* mutant of NewSession: a runner takes a driver that already exists instead
\* of making its own
NewSession_Borrowed ==
    IF DOMAIN sessions = {} THEN 1 ELSE CHOOSE x \in DOMAIN sessions : TRUE

\* the id of the next LogixDriver object
NewSession == CHOOSE x \in 1..(MaxSessions + 1) :
                  x \notin DOMAIN sessions /\ \A y \in 1..(x - 1) : y \in DOMAIN sessions

\* an opening loop whose last failure forgets the sessions of every group
AttemptOpen_ForgetsAll(group_id, rate_ms, tag_ids, attempt, o) ==
    IF o = "ok"
    THEN [task  |-> LoopTop(RunTask(group_id, rate_ms, tag_ids, NewSession,
                                    now + rate_ms)),
          sess  |-> FunPut(sessions, NewSession, "connected"),
          conns |-> FunPut(group_connections, group_id, NewSession)]
    ELSE [task  |-> IF attempt = max_retries - 1 THEN DoneTask(group_id)
                    ELSE RetryTask(group_id, rate_ms, tag_ids, attempt + 1),
          sess  |-> sessions,
          conns |-> IF attempt = max_retries - 1 THEN EmptyFun
                    ELSE group_connections]

\* one pass of the loop "for attempt in range(max_retries)" that opens a
\* session with outcome o: what becomes of the task, the sessions and the
\* registrations
AttemptOpen(group_id, rate_ms, tag_ids, attempt, o) ==
    IF o = "ok"
    THEN [task  |-> LoopTop(RunTask(group_id, rate_ms, tag_ids, NewSession,
                                    now + rate_ms)),
          sess  |-> FunPut(sessions, NewSession, "connected"),
          conns |-> FunPut(group_connections, group_id, NewSession)]
    ELSE [task  |-> IF attempt = max_retries - 1 THEN DoneTask(group_id)
                    ELSE RetryTask(group_id, rate_ms, tag_ids, attempt + 1),
          sess  |-> IF o = "unconnected"
                    THEN FunPut(sessions, NewSession, "unconnected") ELSE sessions,
          conns |-> group_connections]

\* the tasks after task t became rec
TasksWith(t, rec) == CollectTasks([tasks EXCEPT ![t] = rec], poll_tasks)

RunEvent(t) == [kind |-> "run", task |-> t]

\* a runner is scheduled: it has not been cancelled
Runs(t, pcs) ==
    /\ t \in DOMAIN tasks
    /\ tasks[t].pc \in pcs
    /\ ~ tasks[t].cancelled

\* the first run of a task: from the top of poll_group to its first await
RunnerStart(t, o) ==
    /\ Runs(t, {"new"})
    /\ Cardinality(DOMAIN sessions) < MaxSessions
    /\ LET group_id == tasks[t].group_id
       IN  IF ~ DictHas(poll_groups, group_id)
           THEN /\ tasks' = TasksWith(t, DoneTask(group_id))
                /\ UNCHANGED <<sessions, group_connections>>
           ELSE LET group == DictGet(poll_groups, group_id)
                IN  IF group_id \in DOMAIN group_connections
                    THEN /\ tasks' = TasksWith(t,
                                LoopTop(RunTask(group_id, group.rate_ms, group.tag_ids,
                                                group_connections[group_id],
                                                now + group.rate_ms)))
                         /\ UNCHANGED <<sessions, group_connections>>
                    ELSE LET r == AttemptOpen(group_id, group.rate_ms,
                                              group.tag_ids, 0, o)
                         IN  /\ tasks' = TasksWith(t, r.task)
                             /\ sessions' = r.sess
                             /\ group_connections' = r.conns
    /\ hist' = [hist EXCEPT !.ev = RunEvent(t),
                            !.superseded = @ \cap DOMAIN tasks']
    /\ UNCHANGED <<connected, max_tags_per_group, max_concurrent_connections,
                   polling, tag_map, tag_configs, poll_groups, last_values,
                   poll_tasks, stdout, response, now, ARRAY_READ_MODE,
                   serving, reply>>

\* a later attempt, after its sleep of retry_delay * attempt
RunnerRetry(t, o) ==
    /\ Runs(t, {"retry_sleep"})
    /\ now >= tasks[t].wake_at
    /\ Cardinality(DOMAIN sessions) < MaxSessions
    /\ LET r == AttemptOpen(tasks[t].group_id, tasks[t].rate_ms, tasks[t].tag_ids,
                            tasks[t].attempt, o)
       IN  /\ tasks' = TasksWith(t, r.task)
           /\ sessions' = r.sess
           /\ group_connections' = r.conns
    /\ hist' = [hist EXCEPT !.ev = RunEvent(t),
                            !.superseded = @ \cap DOMAIN tasks']
    /\ UNCHANGED <<connected, max_tags_per_group, max_concurrent_connections,
                   polling, tag_map, tag_configs, poll_groups, last_values,
                   poll_tasks, stdout, response, now, ARRAY_READ_MODE,
                   serving, reply>>

\* the drift correction and the sleep that end an iteration
SleepUntilNextPoll(task) ==
    LET advanced  == task.next_poll + task.rate_ms
        next_poll == IF advanced < now THEN now + task.rate_ms ELSE advanced
    IN  [task EXCEPT !.pc = "sleeping", !.next_poll = next_poll,
                     !.wake_at = Max(now, next_poll),
                     !.plan = EmptyPlan, !.timestamp = 0]

\* mutant of BackOff: an exception ends the runner
BackOff_GivesUp(task) == DoneTask(task.group_id)

\* the handler of an exception that is not a recoverable session error, and
\* the end of the recoverable one: sleep one period
BackOff(task) ==
    [task EXCEPT !.pc = "backoff", !.wake_at = now + task.rate_ms,
                 !.plan = EmptyPlan, !.timestamp = 0]

\* the history of the frames written
LastFrames(last_frame, frames) ==
    [x \in DOMAIN last_frame \cup {frames[i].tag_id : i \in 1..Len(frames)} |->
        IF \E i \in 1..Len(frames) : frames[i].tag_id = x
        THEN frames[CHOOSE i \in 1..Len(frames) :
                       frames[i].tag_id = x /\
                       \A j \in (i + 1)..Len(frames) : frames[j].tag_id # x]
        ELSE last_frame[x]]

\* the batch read returned results: they are emitted and the runner sleeps
\* until its next deadline (a single result comes back unwrapped and is put
\* in a list first)
RunnerReadReturn(t, results) ==
    /\ Runs(t, {"reading"})
    /\ LET task == tasks[t]
           st == EmitResults(EmitState(last_values), results, task.plan,
                             tag_configs, now, task.timestamp)
       IN  /\ stdout' = Window(stdout \o st.frames)
           /\ last_values' = st.lasts
           /\ tasks' = TasksWith(t, IF st.raised THEN BackOff(task)
                                    ELSE SleepUntilNextPoll(task))
           /\ hist' = [hist EXCEPT
                         !.ev = [kind |-> "poll", task |-> t,
                                 group_id |-> task.group_id,
                                 frames |-> st.frames, samples |-> st.samples,
                                 filtered |-> st.filtered,
                                 raised |-> st.raised],
                         !.last_frame = LastFrames(@, st.frames),
                         !.superseded = @ \cap DOMAIN tasks']
    /\ UNCHANGED <<connected, max_tags_per_group, max_concurrent_connections,
                   polling, tag_map, tag_configs, poll_groups, poll_tasks,
                   group_connections, sessions, response, now, ARRAY_READ_MODE,
                   serving, reply>>

\* the batch read raised: a recoverable session error closes and forgets the
\* session and waits 2 s, any other exception sleeps one period
RunnerReadRaise(t, recoverable) ==
    /\ Runs(t, {"reading"})
    /\ LET task == tasks[t]
           group_id == task.group_id
       IN  IF recoverable
           THEN /\ tasks' = TasksWith(t, [task EXCEPT !.pc = "recover_sleep",
                                              !.wake_at = now + recovery_delay_ms,
                                              !.plan = EmptyPlan, !.timestamp = 0])
                /\ IF group_id \in DOMAIN group_connections
                   THEN /\ sessions' = FunDel(sessions, group_connections[group_id])
                        /\ group_connections' = FunDel(group_connections, group_id)
                   ELSE UNCHANGED <<sessions, group_connections>>
           ELSE /\ tasks' = TasksWith(t, BackOff(task))
                /\ UNCHANGED <<sessions, group_connections>>
    /\ hist' = [hist EXCEPT !.ev = RunEvent(t),
                            !.superseded = @ \cap DOMAIN tasks']
    /\ UNCHANGED <<connected, max_tags_per_group, max_concurrent_connections,
                   polling, tag_map, tag_configs, poll_groups, last_values,
                   poll_tasks, stdout, response, now, ARRAY_READ_MODE,
                   serving, reply>>

\* a recovery that registers the new session but goes on reading through
\* the one it discarded
RecoverOpen_KeepsOld(task, o) ==
    IF o = "ok"
    THEN [task  |-> BackOff(task),
          sess  |-> FunPut(sessions, NewSession, "connected"),
          conns |-> FunPut(group_connections, task.group_id, NewSession)]
    ELSE [task  |-> DoneTask(task.group_id),
          sess  |-> IF o = "unconnected"
                    THEN FunPut(sessions, NewSession, "unconnected") ELSE sessions,
          conns |-> group_connections]

\* the session recreated with outcome o while polling is on: a connected
\* session is bound to group_plc and registered and the runner backs off one
\* period, otherwise the runner leaves its loop
RecoverOpen(task, o) ==
    IF o = "ok"
    THEN [task  |-> BackOff([task EXCEPT !.group_plc = NewSession]),
          sess  |-> FunPut(sessions, NewSession, "connected"),
          conns |-> FunPut(group_connections, task.group_id, NewSession)]
    ELSE [task  |-> DoneTask(task.group_id),
          sess  |-> IF o = "unconnected"
                    THEN FunPut(sessions, NewSession, "unconnected") ELSE sessions,
          conns |-> group_connections]

\* the end of the recovery wait: the session is recreated if still polling
RunnerRecover(t, o) ==
    /\ Runs(t, {"recover_sleep"})
    /\ now >= tasks[t].wake_at
    /\ Cardinality(DOMAIN sessions) < MaxSessions
    /\ LET task == tasks[t]
       IN  IF ~ polling
           THEN /\ tasks' = TasksWith(t, BackOff(task))
                /\ UNCHANGED <<sessions, group_connections>>
           ELSE LET r == RecoverOpen(task, o)
                IN  /\ tasks' = TasksWith(t, r.task)
                    /\ sessions' = r.sess
                    /\ group_connections' = r.conns
    /\ hist' = [hist EXCEPT !.ev = RunEvent(t),
                            !.superseded = @ \cap DOMAIN tasks']
    /\ UNCHANGED <<connected, max_tags_per_group, max_concurrent_connections,
                   polling, tag_map, tag_configs, poll_groups, last_values,
                   poll_tasks, stdout, response, now, ARRAY_READ_MODE,
                   serving, reply>>

\* the end of a sleep of the loop: the next iteration starts
RunnerWake(t) ==
    /\ Runs(t, {"sleeping", "idle_sleep", "backoff"})
    /\ now >= tasks[t].wake_at
    /\ tasks' = TasksWith(t, LoopTop(tasks[t]))
    /\ hist' = [hist EXCEPT !.ev = RunEvent(t),
                            !.superseded = @ \cap DOMAIN tasks']
    /\ UNCHANGED <<connected, max_tags_per_group, max_concurrent_connections,
                   polling, tag_map, tag_configs, poll_groups, last_values,
                   poll_tasks, group_connections, sessions, stdout, response,
                   now, ARRAY_READ_MODE,
                   serving, reply>>

\* a cancelled task resumes with CancelledError at its await and ends
RunnerCancelled(t) ==
    /\ t \in DOMAIN tasks
    /\ tasks[t].cancelled
    /\ tasks' = TasksWith(t, DoneTask(tasks[t].group_id))
    /\ hist' = [hist EXCEPT !.ev = RunEvent(t),
                            !.superseded = @ \cap DOMAIN tasks']
    /\ UNCHANGED <<connected, max_tags_per_group, max_concurrent_connections,
                   polling, tag_map, tag_configs, poll_groups, last_values,
                   poll_tasks, group_connections, sessions, stdout, response,
                   now, ARRAY_READ_MODE,
                   serving, reply>>

\* time passes, up to the horizon
Tick(horizon) ==
    /\ now + TickMs <= horizon * TickMs
    /\ now' = now + TickMs
    /\ hist' = [hist EXCEPT !.ev = [kind |-> "tick"]]
    /\ UNCHANGED <<connected, max_tags_per_group, max_concurrent_connections,
                   polling, tag_map, tag_configs, poll_groups, last_values,
                   poll_tasks, group_connections, tasks, sessions, stdout,
                   response, ARRAY_READ_MODE,
                   serving, reply>>

-----------------------------------------------------------------------------
(* The worker under a healthy driver: RPCs, runners and the clock,          *)
(* interleaved                                                              *)

\* the clock stops after MaxTime ticks
MaxTime == 2

\* the results a batch read in flight can return
ReadOutcomes(t, vals, short) ==
    IF Runs(t, {"reading"})
    THEN BatchResults(tasks[t].plan.read_requests, vals, short) ELSE {}

\* a scalar and an array element, both filtered on change, in one group
ReqMix ==
    [tags |-> << [tag_id |-> 1, tag_name |-> <<"T">>, poll_group_id |-> 1,
                  on_change_enabled |-> TRUE],
                 [tag_id |-> 2, tag_name |-> <<"A", "[", "0", "]">>,
                  poll_group_id |-> 1, on_change_enabled |-> TRUE] >>,
     poll_groups |-> << [group_id |-> 1, rate_ms |-> TickMs, tag_ids |-> <<1, 2>>] >>]

\* one unfiltered tag listed by two groups
ReqShared ==
    [tags |-> << [tag_id |-> 1, tag_name |-> <<"T">>, poll_group_id |-> 1] >>,
     poll_groups |-> << [group_id |-> 1, rate_ms |-> TickMs, tag_ids |-> <<1>>],
                        [group_id |-> 2, rate_ms |-> TickMs, tag_ids |-> <<1>>] >>]

Reqs == {ReqMix, ReqShared}

\* the values the PLC holds
Vals == {IntVal(1)}

Next ==
    \/ RpcConnect(MaxLimit, DEFAULT_MAX_CONCURRENT_CONNECTIONS, TRUE)
    \/ \E req \in Reqs : hist.installs < MaxInstalls /\ RpcSubscribePolling(req)
    \/ hist.installs < MaxInstalls /\ RpcStopPolling
    \/ \E t \in DOMAIN tasks : RunnerStart(t, "ok")
    \/ \E t \in DOMAIN tasks : \E results \in ReadOutcomes(t, Vals, FALSE) :
          RunnerReadReturn(t, results)
    \/ \E t \in DOMAIN tasks : RunnerWake(t)
    \/ \E t \in DOMAIN tasks : RunnerCancelled(t)
    \/ Tick(MaxTime)

Spec == Init /\ [][Next]_vars

\* the last step was a subscribe_polling or stop_polling call that succeeded
InstallReturned ==
    /\ hist.ev.kind = "rpc"
    /\ hist.ev.method \in {"subscribe_polling", "stop_polling"}
    /\ hist.ev.ok

\* the last step was the emission loop of a runner
Polled == hist.ev.kind = "poll"

\* C4: when subscribe_polling or stop_polling returns, the last-value cache
\* holds no record, so that the first sample of every tag under the new
\* subscription meets "no last-value record"
C4_CacheEmptyAfterInstall == InstallReturned => last_values = EmptyFun

\* the runners that are neither cancelled nor finished, for a group id
LiveRunners(group_id) ==
    {t \in DOMAIN tasks : /\ tasks[t].group_id = group_id
                          /\ tasks[t].pc # "done"
                          /\ ~ tasks[t].cancelled}

C5_AtMostOneRunner == \A t \in DOMAIN tasks :
                          Cardinality(LiveRunners(tasks[t].group_id)) <= 1

\* a step taken by a runner that an earlier subscribe_polling or stop_polling
\* call found alive only ends that runner: it submits no read and emits nothing
C5_SupersededOnlyEnds ==
    \A t \in hist.superseded :
        (hist'.ev.kind \in {"run", "poll"} /\ hist'.ev.task = t) =>
            /\ hist'.ev.kind = "run"
            /\ stdout' = stdout
            /\ t \notin DOMAIN tasks' \/ tasks'[t].pc = "done"

\* C5: once subscribe_polling or stop_polling has returned, no runner of an
\* earlier subscription submits a driver read or emits a frame, and at every
\* moment each group id has at most one runner that is not cancelled
C5_OneLiveSubscription == [] C5_AtMostOneRunner /\ [][C5_SupersededOnlyEnds]_vars

\* a runner of the new subscription emitted while a cancelled runner of the
\* previous one, for the same group id, was still suspended in its read
C5_Witness ==
    /\ Polled
    /\ hist.ev.frames # <<>>
    /\ \E t \in hist.superseded :
          /\ tasks[t].cancelled
          /\ tasks[t].pc = "reading"
          /\ tasks[t].group_id = hist.ev.group_id

\* C6: every frame emitted carries a tag_id of the tag map installed by the
\* most recent subscribe_polling, and no frame is emitted once stop_polling
\* has returned and until the next subscribe_polling succeeds
C6_FramesOfCurrentSubscription ==
    (Polled /\ hist.ev.frames # <<>>) =>
        /\ polling
        /\ \A i \in 1..Len(hist.ev.frames) :
              hist.ev.frames[i].tag_id \in DOMAIN tag_map

\* frames emitted under a second subscription that dropped tag 2, which the
\* first subscription had published
C6_Witness ==
    /\ Polled
    /\ hist.ev.frames # <<>>
    /\ hist.installs = 2
    /\ DOMAIN tag_map = {1}
    /\ 2 \in DOMAIN hist.last_frame

C7_StepKeepsOrder ==
    hist'.ev.kind = "poll" =>
        \A i \in 1..Len(hist'.ev.frames) :
            LET f == hist'.ev.frames[i]
            IN  /\ f.tag_id \in DOMAIN hist.last_frame =>
                      hist.last_frame[f.tag_id].ts <= f.ts
                /\ \A j \in 1..(i - 1) :
                      hist'.ev.frames[j].tag_id = f.tag_id =>
                          hist'.ev.frames[j].ts <= f.ts

\* C7: for every tag_id the ts of its frames never decreases in emission order
C7_TimestampsNonDecreasing == [][C7_StepKeepsOrder]_vars

-----------------------------------------------------------------------------
(* One subscription polled by its runners, over a driver that can fail      *)

\* the clock stops after MaxTimePoll ticks
MaxTimePoll == 3

\* what LogixDriver(...).open() can do
OpenOutcomes == {"ok", "raise", "unconnected"}

\* two unfiltered tags of one group that carry the same tag name
ReqSameName ==
    [tags |-> << [tag_id |-> 1, tag_name |-> <<"T">>, poll_group_id |-> 1],
                 [tag_id |-> 2, tag_name |-> <<"T">>, poll_group_id |-> 1] >>,
     poll_groups |-> << [group_id |-> 1, rate_ms |-> TickMs, tag_ids |-> <<1, 2>>] >>]

\* one array element filtered on change with deadband 0
ReqElement ==
    [tags |-> << [tag_id |-> 1, tag_name |-> <<"A", "[", "0", "]">>,
                  poll_group_id |-> 1, on_change_enabled |-> TRUE,
                  on_change_deadband |-> 0] >>,
     poll_groups |-> << [group_id |-> 1, rate_ms |-> TickMs, tag_ids |-> <<1>>] >>]

ReqsPoll == {ReqSameName, ReqElement}

NextPoll ==
    \/ RpcConnect(MaxLimit, DEFAULT_MAX_CONCURRENT_CONNECTIONS, TRUE)
    \/ \E req \in ReqsPoll : hist.installs = 0 /\ RpcSubscribePolling(req)
    \/ \E t \in DOMAIN tasks, o \in OpenOutcomes : RunnerStart(t, o)
    \/ \E t \in DOMAIN tasks, o \in OpenOutcomes : RunnerRetry(t, o)
    \/ \E t \in DOMAIN tasks : \E results \in ReadOutcomes(t, Vals, FALSE) :
          RunnerReadReturn(t, results)
    \/ \E t \in DOMAIN tasks, recoverable \in BOOLEAN : RunnerReadRaise(t, recoverable)
    \/ \E t \in DOMAIN tasks, o \in OpenOutcomes : RunnerRecover(t, o)
    \/ \E t \in DOMAIN tasks : RunnerWake(t)
    \/ Tick(MaxTimePoll)

SpecPoll == Init /\ [][NextPoll]_vars

\* the tags of the polled group that are subscribed with the filter off
UnfilteredTags(group_id) ==
    {x \in Range(DictGet(poll_groups, group_id).tag_ids) :
        x \in DOMAIN tag_map /\ ~ tag_configs[x].on_change_enabled}

FramesOf(frames, x) == {i \in 1..Len(frames) : frames[i].tag_id = x}

\* C8: in every poll iteration whose batch read returned, each tag of the
\* group with on_change_enabled = false gets exactly one frame
C8_OneFramePerUnfilteredTag ==
    Polled => \A x \in UnfilteredTags(hist.ev.group_id) :
                  Cardinality(FramesOf(hist.ev.frames, x)) = 1

C9_StepPublishesTransition ==
    hist'.ev.kind = "poll" =>
        \A i \in 1..Len(hist'.ev.samples) :
            LET sample == hist'.ev.samples[i]
            IN  (/\ tag_configs[sample.tag_id].on_change_enabled
                 /\ sample.tag_id \in DOMAIN hist.last_frame
                 /\ hist.last_frame[sample.tag_id].q # sample.q) => sample.published

\* C9: for a tag filtered on change, a polled sample whose quality differs
\* from the quality of the tag's previously published frame is published
C9_QualityTransitionPublished == [][C9_StepPublishesTransition]_vars

-----------------------------------------------------------------------------
(* One subscription polled continuously: healthy driver, reads of           *)
(* negligible latency, runners that run as soon as they are due             *)

\* the clock stops after MaxTimeTimed ticks
MaxTimeTimed == 4

\* the heartbeats subscribed: below, at and above the period of the group
HeartbeatsTimed == {TickMs \div 2, TickMs, 2 * TickMs}

\* a scalar and an array element filtered on change with heartbeat H
ReqHeartbeat(H) ==
    [tags |-> << [tag_id |-> 1, tag_name |-> <<"T">>, poll_group_id |-> 1,
                  on_change_enabled |-> TRUE, on_change_heartbeat_ms |-> H],
                 [tag_id |-> 2, tag_name |-> <<"A", "[", "0", "]">>,
                  poll_group_id |-> 1, on_change_enabled |-> TRUE,
                  on_change_heartbeat_ms |-> H] >>,
     poll_groups |-> << [group_id |-> 1, rate_ms |-> TickMs, tag_ids |-> <<1, 2>>] >>]

\* the values the PLC holds
ValsTimed == {IntVal(1), IntVal(2)}

\* the results of a batch read that the driver answers without error
HealthyOutcomes(t, vals) ==
    {results \in ReadOutcomes(t, vals, FALSE) :
        \A i \in 1..Len(results) : ~ results[i].error}

\* a runner that can take a step at the present time
Due(t) ==
    \/ tasks[t].cancelled
    \/ tasks[t].pc \in {"new", "reading"}
    \/ /\ tasks[t].pc \in {"sleeping", "idle_sleep", "backoff", "retry_sleep",
                           "recover_sleep"}
       /\ now >= tasks[t].wake_at

\* time passes only when no runner is due
TickTimed(horizon) ==
    /\ \A t \in DOMAIN tasks : ~ Due(t)
    /\ Tick(horizon)

NextTimed ==
    \/ RpcConnect(MaxLimit, DEFAULT_MAX_CONCURRENT_CONNECTIONS, TRUE)
    \/ \E H \in HeartbeatsTimed :
          hist.installs = 0 /\ RpcSubscribePolling(ReqHeartbeat(H))
    \/ \E t \in DOMAIN tasks : RunnerStart(t, "ok")
    \/ \E t \in DOMAIN tasks : \E results \in HealthyOutcomes(t, ValsTimed) :
          RunnerReadReturn(t, results)
    \/ \E t \in DOMAIN tasks : RunnerWake(t)
    \/ TickTimed(MaxTimeTimed)

SpecTimed == Init /\ [][NextTimed]_vars

C10_StepWithinBound ==
    hist'.ev.kind = "poll" =>
        \A i \in 1..Len(hist'.ev.frames) :
            LET f == hist'.ev.frames[i]
                H == tag_configs[f.tag_id].on_change_heartbeat_ms
                rate_ms == DictGet(poll_groups, hist'.ev.group_id).rate_ms
            IN  (/\ tag_configs[f.tag_id].on_change_enabled
                 /\ H > 0
                 /\ f.tag_id \in DOMAIN hist.last_frame) =>
                    f.ts - hist.last_frame[f.tag_id].ts <= H + rate_ms

\* C10: for a tag filtered on change with heartbeat H > 0, polled
\* continuously, two consecutive frames of the tag are at most H + rate_ms
\* apart, from the first poll of the runner on
C10_HeartbeatBound == [][C10_StepWithinBound]_vars

-----------------------------------------------------------------------------
(* The change filter: one tag read as a scalar, polled continuously, over   *)
(* every small configuration and every value of the driver                  *)

\* the clock stops after MaxTimeFilter ticks
MaxTimeFilter == 5

\* deadband of 0.5 when the values are counted in tenths
DeadbandFilter == 5

\* the change-detection settings of the tag: filter off, exact match,
\* absolute and percent deadband, heartbeat of two periods, default heartbeat
ConfigsFilter ==
    { [on_change_enabled |-> FALSE],
      [on_change_enabled |-> TRUE, on_change_deadband |-> 0,
       on_change_heartbeat_ms |-> 0],
      [on_change_enabled |-> TRUE, on_change_deadband |-> DeadbandFilter,
       on_change_deadband_type |-> "absolute", on_change_heartbeat_ms |-> 0],
      [on_change_enabled |-> TRUE, on_change_deadband |-> DeadbandFilter,
       on_change_deadband_type |-> "percent", on_change_heartbeat_ms |-> 0],
      [on_change_enabled |-> TRUE, on_change_deadband |-> 0,
       on_change_heartbeat_ms |-> 2 * TickMs],
      [on_change_enabled |-> TRUE, on_change_deadband |-> DeadbandFilter] }

ReqFilter(config) ==
    [tags |-> << [tag_id |-> 1, tag_name |-> <<"T">>, poll_group_id |-> 1] @@ config >>,
     poll_groups |-> << [group_id |-> 1, rate_ms |-> TickMs, tag_ids |-> <<1>>] >>]

\* the values a numeric tag of the PLC holds: numbers in tenths (10.0, 10.2,
\* 10.5, 10.6 and 0), NaN and infinity; the driver gives no null value
ValsFilter ==
    {IntVal(0), IntVal(100), IntVal(102), IntVal(105), IntVal(106), NaN, Inf}

NextFilter ==
    \/ ~ connected /\ RpcConnect(MaxLimit, DEFAULT_MAX_CONCURRENT_CONNECTIONS, TRUE)
    \/ \E config \in ConfigsFilter :
          hist.installs = 0 /\ RpcSubscribePolling(ReqFilter(config))
    \/ \E t \in DOMAIN tasks : RunnerStart(t, "ok")
    \/ \E t \in DOMAIN tasks : \E results \in ReadOutcomes(t, ValsFilter, FALSE) :
          RunnerReadReturn(t, results)
    \/ \E t \in DOMAIN tasks : RunnerWake(t)
    \/ TickTimed(MaxTimeFilter)

SpecFilter == Init /\ [][NextFilter]_vars

\* the values a boolean tag and a string tag of the PLC hold
ValsDiscrete == {BoolVal(TRUE), BoolVal(FALSE), StrVal("a"), StrVal("b")}

NextDiscrete ==
    \/ ~ connected /\ RpcConnect(MaxLimit, DEFAULT_MAX_CONCURRENT_CONNECTIONS, TRUE)
    \/ \E config \in ConfigsFilter :
          hist.installs = 0 /\ RpcSubscribePolling(ReqFilter(config))
    \/ \E t \in DOMAIN tasks : RunnerStart(t, "ok")
    \/ \E t \in DOMAIN tasks : \E results \in ReadOutcomes(t, ValsDiscrete, FALSE) :
          RunnerReadReturn(t, results)
    \/ \E t \in DOMAIN tasks : RunnerWake(t)
    \/ TickTimed(MaxTimeFilter)

SpecDiscrete == Init /\ [][NextDiscrete]_vars

\* the samples of the step taken that went through the filter with the
\* filter on, a last-value record, the quality of the last published frame
\* and no heartbeat due
ComparedSamples ==
    {i \in 1..Len(hist'.ev.samples) :
        LET sample == hist'.ev.samples[i]
            x == sample.tag_id
        IN  /\ tag_configs[x].on_change_enabled
            /\ x \in DOMAIN last_values
            /\ x \in DOMAIN hist.last_frame
            /\ hist.last_frame[x].q = sample.q
            /\ ~ (tag_configs[x].on_change_heartbeat_ms > 0 /\
                  now - last_values[x].timestamp >= tag_configs[x].on_change_heartbeat_ms)}

\* the reference decision on (last published value, new value), both null
\* or numbers
ReferencePublish(config, last, new) ==
    IF last = None /\ new = None THEN FALSE
    ELSE IF last = None \/ new = None THEN TRUE
    ELSE IF config.on_change_deadband > 0 /\ config.on_change_deadband_type = "absolute"
    THEN Abs(new.v - last.v) >= config.on_change_deadband
    ELSE IF config.on_change_deadband > 0 /\ config.on_change_deadband_type = "percent"
    THEN Abs(new.v - last.v) * 100
            >= config.on_change_deadband * (IF last.v # 0 THEN Abs(last.v) ELSE 1)
    ELSE new.v # last.v

C11_StepDecidesAsReference ==
    hist'.ev.kind = "poll" =>
        \A i \in ComparedSamples :
            LET sample == hist'.ev.samples[i]
                last == hist.last_frame[sample.tag_id].v
            IN  (last.k \in {"none", "int"} /\ sample.v.k \in {"none", "int"}) =>
                    sample.published =
                        ReferencePublish(tag_configs[sample.tag_id], last, sample.v)

\* C11: with the filter on, a last-value record, unchanged quality and no
\* heartbeat due, the decision on (last published value, new value) is the
\* reference decision: null against non-null publishes, null against null
\* skips, numbers publish iff the change reaches the deadband (absolute or
\* percent of |last|, of 1 when last is 0), or iff they differ with deadband 0
C11_FilterDecidesAsReference == [][C11_StepDecidesAsReference]_vars

\* 10.0, then two polls of which only 10.6 was published, then two polls
\* suppressed, under an absolute deadband of 0.5: five polls, two frames
C11_Witness ==
    /\ Polled
    /\ now = 5 * TickMs
    /\ tag_configs[1].on_change_enabled
    /\ tag_configs[1].on_change_deadband = DeadbandFilter
    /\ tag_configs[1].on_change_deadband_type = "absolute"
    /\ tag_configs[1].on_change_heartbeat_ms = 0
    /\ stdout = << Frame(1, IntVal(100), 0, 0), Frame(1, IntVal(106), 0, 3 * TickMs) >>
    /\ hist.ev.samples = << [tag_id |-> 1, v |-> IntVal(106), q |-> 0,
                             published |-> FALSE] >>

C12_StepPublishesIffDifferent ==
    hist'.ev.kind = "poll" =>
        \A i \in ComparedSamples :
            LET sample == hist'.ev.samples[i]
                last == hist.last_frame[sample.tag_id].v
            IN  (last.k = sample.v.k /\ last.k \in {"bool", "str"}) =>
                    sample.published = (sample.v # last)

\* C12: with the filter on, a last-value record, unchanged quality and no
\* heartbeat due, two booleans or two strings publish iff they differ,
\* whatever the deadband and its mode
C12_DeadbandSparesBooleans == [][C12_StepPublishesIffDifferent]_vars

C13_StepHeartbeat ==
    hist'.ev.kind = "poll" =>
        \A i \in 1..Len(hist'.ev.samples) :
            LET sample == hist'.ev.samples[i]
                x == sample.tag_id
                H == tag_configs[x].on_change_heartbeat_ms
            IN  (tag_configs[x].on_change_enabled /\ x \in DOMAIN last_values) =>
                    /\ (H > 0 /\ now - last_values[x].timestamp >= H) => sample.published
                    /\ (/\ H = 0
                        /\ sample.v = last_values[x].value
                        /\ sample.q = last_values[x].quality) => ~ sample.published

\* C13: with the filter on and a last-value record, a sample evaluated H or
\* more after the record's timestamp is published when H > 0, and with H = 0
\* a sample of unchanged value and quality is not published
C13_ForcedHeartbeat == [][C13_StepHeartbeat]_vars

\* a frame repeating the value and quality of the previous one, two periods
\* later, under a heartbeat of two periods
C13_Witness ==
    /\ Polled
    /\ tag_configs[1].on_change_enabled
    /\ tag_configs[1].on_change_heartbeat_ms = 2 * TickMs
    /\ Len(stdout) >= 2
    /\ hist.ev.frames = << stdout[Len(stdout)] >>
    /\ stdout[Len(stdout)].v = stdout[Len(stdout) - 1].v
    /\ stdout[Len(stdout)].q = stdout[Len(stdout) - 1].q
    /\ stdout[Len(stdout)].ts >= stdout[Len(stdout) - 1].ts + 2 * TickMs

\* C16: a result read without error whose value is NaN or infinite gives a
\* frame (null, 0) for its tag; the driver gives no null value, so that a
\* sample (null, 0) is the sanitized form of such a result
C16_SanitizedAlwaysEmitted ==
    Polled => \A i \in 1..Len(hist.ev.samples) :
                  LET sample == hist.ev.samples[i]
                  IN  (sample.v = None /\ sample.q = 0) =>
                          /\ sample.published
                          /\ \E j \in 1..Len(hist.ev.frames) :
                                hist.ev.frames[j] =
                                    Frame(sample.tag_id, None, 0, hist.ev.frames[j].ts)

-----------------------------------------------------------------------------
(* The read plan of array subscriptions, in both array modes               *)

\* the clock stops after MaxTimePlan ticks
MaxTimePlan == 2

\* the largest array index subscribed
MaxIndexPlan == 999

\* the index sets subscribed: the subsets of a few small indices, and runs
\* 0..k-1 completed by one far index
IndexSetsPlan ==
    ((SUBSET {0, 1, 9, 10, 29}) \ {{}}) \cup
    {(0..(k - 1)) \cup {m} : k \in {2, 8, 9, 14}, m \in {89, 99, 100, MaxIndexPlan}}

\* the elements of a set of integers in ascending order
RECURSIVE Ascending(_)
Ascending(S) == IF S = {} THEN <<>>
                ELSE LET m == SetMax(S) IN Append(Ascending(S \ {m}), m)

\* a subscription of one group to the elements I of array A, unfiltered
ReqArray(I) ==
    LET idx == Ascending(I)
    IN  [tags |-> [i \in 1..Len(idx) |->
                     [tag_id |-> i, tag_name |-> ElementTag(<<"A">>, idx[i]),
                      poll_group_id |-> 1]],
         poll_groups |-> << [group_id |-> 1, rate_ms |-> TickMs,
                             tag_ids |-> [i \in 1..Len(idx) |-> i]] >>]

\* elements of two arrays and a scalar in one group
ReqTwoArrays ==
    [tags |-> << [tag_id |-> 1, tag_name |-> ElementTag(<<"A">>, 0), poll_group_id |-> 1],
                 [tag_id |-> 2, tag_name |-> ElementTag(<<"B">>, 29), poll_group_id |-> 1],
                 [tag_id |-> 3, tag_name |-> <<"T">>, poll_group_id |-> 1],
                 [tag_id |-> 4, tag_name |-> ElementTag(<<"A">>, 1), poll_group_id |-> 1],
                 [tag_id |-> 5, tag_name |-> ElementTag(<<"A">>, 29), poll_group_id |-> 1] >>,
     poll_groups |-> << [group_id |-> 1, rate_ms |-> TickMs,
                         tag_ids |-> <<1, 2, 3, 4, 5>>] >>]

ReqsPlan == {ReqArray(I) : I \in IndexSetsPlan} \cup {ReqTwoArrays}

\* the batch read in which the driver flags every token in error
AllErrors(read_requests) ==
    [i \in 1..Len(read_requests) |->
        [tag |-> ResultTag(read_requests[i]), error |-> TRUE, value |-> None]]

InitPlan == \E mode \in {"batch", "individual"} : InitMode(mode)

NextPlan ==
    \/ ~ connected /\ RpcConnect(DEFAULT_MAX_TAGS_PER_GROUP,
                                 DEFAULT_MAX_CONCURRENT_CONNECTIONS, TRUE)
    \/ \E req \in ReqsPlan : hist.installs = 0 /\ RpcSubscribePolling(req)
    \/ \E t \in DOMAIN tasks : RunnerStart(t, "ok")
    \/ \E t \in DOMAIN tasks :
          Runs(t, {"reading"}) /\
          RunnerReadReturn(t, AllErrors(tasks[t].plan.read_requests))
    \/ \E t \in DOMAIN tasks : RunnerWake(t)
    \/ TickTimed(MaxTimePlan)

SpecPlan == InitPlan /\ [][NextPlan]_vars

\* the array bases the request names
BasesPlan == {<<"A">>, <<"B">>}

\* the integer indices of array base that the group of a runner subscribes
SubscribedIndices(task, base) ==
    {i \in 0..MaxIndexPlan :
        \E k \in 1..Len(hist.req.tags) :
            /\ hist.req.tags[k].tag_name = ElementTag(base, i)
            /\ hist.req.tags[k].tag_id \in Range(task.tag_ids)}

\* the number of positions of a read list that hold a token satisfying P
CountTokens(read_requests, P(_)) ==
    Cardinality({i \in 1..Len(read_requests) : P(read_requests[i])})

\* token is a sparse token BASE[i] of base
IsSparseOf(token, base) ==
    Contains(token, "[") /\ BaseName(token) = base

\* token is a full-array token BASE{n} of base
IsFullOf(token, base) ==
    IsCountToken(token) /\ ResultTag(token) = base

\* the plan holds exactly one full-array token BASE{N} for base, no sparse one
FullPlan(read_requests, base, N) ==
    LET IsFull(token) == IsFullOf(token, base)
        IsSparse(token) == IsSparseOf(token, base)
        IsTheRead(token) == token = ArrayReadTag(base, N)
    IN  /\ CountTokens(read_requests, IsFull) = 1
        /\ CountTokens(read_requests, IsTheRead) = 1
        /\ CountTokens(read_requests, IsSparse) = 0

\* the plan holds exactly the sparse tokens BASE[i] of I for base, no full one
SparsePlan(read_requests, base, I) ==
    LET IsFull(token) == IsFullOf(token, base)
        IsSparse(token) == IsSparseOf(token, base)
    IN  /\ CountTokens(read_requests, IsFull) = 0
        /\ CountTokens(read_requests, IsSparse) = Cardinality(I)
        /\ \A i \in I :
              LET IsElement(token) == token = ElementTag(base, i)
              IN  CountTokens(read_requests, IsElement) = 1

C14_WitnessSparse ==
    /\ ARRAY_READ_MODE = "batch"
    /\ \E t \in DOMAIN tasks :
          /\ tasks[t].pc = "reading"
          /\ SubscribedIndices(tasks[t], <<"A">>) = {0, 1, MaxIndexPlan}
          /\ Len(tasks[t].plan.read_requests) = 3

-----------------------------------------------------------------------------
(* Array subscriptions read from one PLC in both array modes                *)

\* the clock stops after MaxTimeArray ticks
MaxTimeArray == 2

\* the largest number of elements the array of the PLC holds
MaxArrayLen == 3

\* the value the PLC holds at index i of an array, and in a scalar tag
ElementValue(i) == IntVal(i + 1)

\* what the PLC and the driver do during one batch read: the array holds len
\* elements, the driver flags every token in error or none, and a read of
\* more elements than the array holds is flagged in error or answered with
\* the len elements there are
PlcStates ==
    [len : 0..MaxArrayLen, fault : BOOLEAN, beyond : {"error", "short"}]

\* the first n elements of the array
ArrayPrefix(n) == [i \in 1..n |-> ElementValue(i - 1)]

\* the result of the driver for one token
DriverResult(token, plc) ==
    LET failed(value) == [tag |-> ResultTag(token), error |-> TRUE, value |-> None]
        good(value)   == [tag |-> ResultTag(token), error |-> FALSE, value |-> value]
    IN  IF plc.fault THEN failed(None)
        ELSE IF IsCountToken(token)
        THEN IF CountOf(token) <= plc.len
             THEN good(ListVal(ArrayPrefix(CountOf(token))))
             ELSE IF plc.beyond = "short" THEN good(ListVal(ArrayPrefix(plc.len)))
                  ELSE failed(None)
        ELSE IF IsArrayElement(token)
        THEN IF IntOf(IndexStr(token)) < plc.len
             THEN good(ElementValue(IntOf(IndexStr(token))))
             ELSE failed(None)
        ELSE good(ElementValue(0))

\* group_plc.read(*read_requests) against that PLC
DriverRead(read_requests, plc) ==
    [i \in 1..Len(read_requests) |-> DriverResult(read_requests[i], plc)]

\* subscriptions to elements of A among the first MaxArrayLen indices
ReqsArray == {ReqArray(I) : I \in (SUBSET (0..(MaxArrayLen - 1))) \ {{}}}

NextArray ==
    \/ ~ connected /\ RpcConnect(DEFAULT_MAX_TAGS_PER_GROUP,
                                 DEFAULT_MAX_CONCURRENT_CONNECTIONS, TRUE)
    \/ \E req \in ReqsArray : hist.installs = 0 /\ RpcSubscribePolling(req)
    \/ \E t \in DOMAIN tasks : RunnerStart(t, "ok")
    \/ \E t \in DOMAIN tasks : \E plc \in PlcStates :
          Runs(t, {"reading"}) /\
          RunnerReadReturn(t, DriverRead(tasks[t].plan.read_requests, plc))
    \/ \E t \in DOMAIN tasks : RunnerWake(t)
    \/ TickTimed(MaxTimeArray)

SpecArray == InitPlan /\ [][NextArray]_vars

\* the other array mode
OtherMode(mode) == IF mode = "individual" THEN "batch" ELSE "individual"

\* the frames of a poll as a multiset of (tag_id, v, q)
FrameBag(frames) ==
    LET key(i) == <<frames[i].tag_id, frames[i].v, frames[i].q>>
        keys == {key(i) : i \in 1..Len(frames)}
    IN  [x \in keys |-> Cardinality({i \in 1..Len(frames) : key(i) = x})]

\* the frames the poll of task would emit against plc under the given mode
FramesUnder(mode, task, plc) ==
    LET plan == BuildPlan(task.tag_ids, tag_map, mode)
    IN  EmitResults(EmitState(last_values), DriverRead(plan.read_requests, plc),
                    plan, tag_configs, now, task.timestamp).frames

C15_StepSameFrames ==
    \A t \in DOMAIN tasks : \A plc \in PlcStates :
        (/\ Runs(t, {"reading"})
         /\ RunnerReadReturn(t, DriverRead(tasks[t].plan.read_requests, plc)))
        => FrameBag(hist'.ev.frames) =
           FrameBag(FramesUnder(OtherMode(ARRAY_READ_MODE), tasks[t], plc))

\* C15: for a subscription of elements of an array with on_change_enabled =
\* false, the frames (tag_id, v, q) a poll emits are, as a multiset, the
\* frames the same poll emits against the same PLC and driver behaviour under
\* the other array mode, also when the driver flags an error and when the
\* array returned is shorter than a subscribed index.
C15_ArrayEquivalence == [][C15_StepSameFrames]_vars

\* the same comparison for the polls in which every subscribed index exists
C15_StepSameFramesInRange ==
    \A t \in DOMAIN tasks : \A plc \in PlcStates :
        (/\ Runs(t, {"reading"})
         /\ plc.len = MaxArrayLen
         /\ RunnerReadReturn(t, DriverRead(tasks[t].plan.read_requests, plc)))
        => FrameBag(hist'.ev.frames) =
           FrameBag(FramesUnder(OtherMode(ARRAY_READ_MODE), tasks[t], plc))

C15_EquivalenceInRange == [][C15_StepSameFramesInRange]_vars

-----------------------------------------------------------------------------
(* Two groups, each with its own runner and session, under a driver that    *)
(* can fail; runners run as soon as they are due                            *)

\* the clock stops after MaxTimeIsolate ticks
MaxTimeIsolate == 3

\* two unfiltered scalars, one per group
ReqTwoGroups ==
    [tags |-> << [tag_id |-> 1, tag_name |-> <<"T">>, poll_group_id |-> 1],
                 [tag_id |-> 2, tag_name |-> <<"U">>, poll_group_id |-> 2] >>,
     poll_groups |-> << [group_id |-> 1, rate_ms |-> TickMs, tag_ids |-> <<1>>],
                        [group_id |-> 2, rate_ms |-> TickMs, tag_ids |-> <<2>>] >>]

NextIsolate ==
    \/ ~ connected /\ RpcConnect(DEFAULT_MAX_TAGS_PER_GROUP,
                                 DEFAULT_MAX_CONCURRENT_CONNECTIONS, TRUE)
    \/ hist.installs = 0 /\ RpcSubscribePolling(ReqTwoGroups)
    \/ \E t \in DOMAIN tasks, o \in OpenOutcomes : RunnerStart(t, o)
    \/ \E t \in DOMAIN tasks, o \in OpenOutcomes : RunnerRetry(t, o)
    \/ \E t \in DOMAIN tasks : \E results \in ReadOutcomes(t, Vals, FALSE) :
          RunnerReadReturn(t, results)
    \/ \E t \in DOMAIN tasks, recoverable \in BOOLEAN : RunnerReadRaise(t, recoverable)
    \/ \E t \in DOMAIN tasks, o \in OpenOutcomes : RunnerRecover(t, o)
    \/ \E t \in DOMAIN tasks : RunnerWake(t)
    \/ TickTimed(MaxTimeIsolate)

SpecIsolate == Init /\ [][NextIsolate]_vars

\* the step in which runner t gives up: it was opening or reopening its
\* session while polling was on, and it has ended
GivesUp(t) ==
    /\ Runs(t, {"new", "retry_sleep", "recover_sleep"})
    /\ polling
    /\ DictHas(poll_groups, tasks[t].group_id)
    /\ hist'.ev = RunEvent(t)
    /\ t \in DOMAIN tasks' => tasks'[t].pc = "done"

\* the runners that poll: started, not finished, not cancelled
PollingRunners ==
    {u \in DOMAIN tasks : tasks[u].pc \notin {"new", "done"} /\ ~ tasks[u].cancelled}

C17_StepLeavesOthersAlone ==
    \A t \in DOMAIN tasks :
        GivesUp(t) =>
            /\ polling'
            /\ connected' = connected
            /\ stdout' = stdout
            /\ poll_groups' = poll_groups /\ tag_map' = tag_map
            /\ poll_tasks' = poll_tasks
            /\ \A u \in DOMAIN tasks \ {t} :
                  tasks[u].pc # "done" => u \in DOMAIN tasks' /\ tasks'[u] = tasks[u]
            /\ \A g \in DOMAIN group_connections \ {tasks[t].group_id} :
                  /\ g \in DOMAIN group_connections'
                  /\ group_connections'[g] = group_connections[g]
                  /\ group_connections[g] \in DOMAIN sessions'
                  /\ sessions'[group_connections[g]] = sessions[group_connections[g]]

\* every polling runner reads through the session registered for its own
\* group, which no other group uses
OwnSessions ==
    \A u \in PollingRunners :
        tasks[u].pc = "reading" =>
            /\ tasks[u].group_id \in DOMAIN group_connections
            /\ tasks[u].group_plc = group_connections[tasks[u].group_id]
            /\ \A g \in DOMAIN group_connections \ {tasks[u].group_id} :
                  group_connections[g] # tasks[u].group_plc

\* C17: when the runner of one group exits because its session could not be
\* opened after all retries or could not be reopened during recovery, the
\* worker keeps running with the polling flag set, the runners, registrations
\* and sessions of the other groups are untouched, and every runner that
\* polls does so through the session of its own group.
C17_FailureIsolation == [][C17_StepLeavesOthersAlone]_vars /\ []OwnSessions

\* C17 witness: the runner of one group has ended on a session failure and
\* the runner of another group has just emitted a frame.
C17_Witness ==
    /\ polling
    /\ hist.ev.kind = "poll"
    /\ hist.ev.frames # <<>>
    /\ \E g \in DOMAIN poll_tasks :
          /\ g # hist.ev.group_id
          /\ poll_tasks[g] \in DOMAIN tasks
          /\ tasks[poll_tasks[g]].pc = "done"
          /\ g \notin DOMAIN group_connections

-----------------------------------------------------------------------------
(* stop_polling against sessions whose close can raise                      *)

\* the clock stops after MaxTimeStop ticks
MaxTimeStop == 2

NextStop ==
    \/ ~ connected /\ RpcConnect(DEFAULT_MAX_TAGS_PER_GROUP,
                                 DEFAULT_MAX_CONCURRENT_CONNECTIONS, TRUE)
    \/ hist.req = NoRequest /\ RpcSubscribePolling(ReqTwoGroups)
    \/ \E closes \in [DOMAIN group_connections -> CloseOutcomes] :
          StopPollingWith(closes)
    \/ \E t \in DOMAIN tasks, o \in OpenOutcomes : RunnerStart(t, o)
    \/ \E t \in DOMAIN tasks : \E results \in ReadOutcomes(t, Vals, FALSE) :
          RunnerReadReturn(t, results)
    \/ \E t \in DOMAIN tasks : RunnerWake(t)
    \/ \E t \in DOMAIN tasks : RunnerCancelled(t)
    \/ Tick(MaxTimeStop)

SpecStop == Init /\ [][NextStop]_vars

\* the step is a call of stop_polling
StopPollingStep == hist'.ev.kind = "rpc" /\ hist'.ev.method = "stop_polling"

\* nothing is subscribed or left over: no task and no session registered,
\* polling off
NothingToStop ==
    polling = FALSE /\ poll_tasks = EmptyFun /\ group_connections = EmptyFun

C18_StepStops ==
    StopPollingStep =>
        /\ response' = [method |-> "stop_polling", error |-> 0]
        /\ polling' = FALSE
        /\ poll_tasks' = EmptyFun
        /\ group_connections' = EmptyFun
        /\ \A g \in DOMAIN group_connections :
              group_connections[g] \in DOMAIN sessions' =>
                  sessions'[group_connections[g]] \in {"reset", "unclosed"}
        /\ NothingToStop =>
              /\ tasks' = tasks /\ sessions' = sessions
              /\ connected' = connected /\ tag_map' = tag_map
              /\ tag_configs' = tag_configs /\ poll_groups' = poll_groups
              /\ last_values' = last_values /\ stdout' = stdout

\* C18: stop_polling never fails and is idempotent: whatever a group
\* session's close raises, every registered session gets its close, the call
\* returns success with no task and no session registered and polling off;
\* called again, or with nothing subscribed, it returns the same and changes
\* nothing.
C18_StopPollingNeverFails == [][C18_StepStops]_vars

\* C18 witness: stop_polling has returned success after the close of one
\* session raised a forward_close error and the close of another raised
\* another exception.
C18_Witness ==
    /\ hist.ev = RpcEvent("stop_polling", TRUE)
    /\ NothingToStop
    /\ \E x, y \in DOMAIN sessions : sessions[x] = "reset" /\ sessions[y] = "unclosed"

-----------------------------------------------------------------------------
(* The control channel: the lines read_stdin_async reads, one per iteration *)

\* the ids requests carry: numbers, or none at all
RequestIds == {IntVal(1), IntVal(2), None}

\* method names that handle_request does not know
UnknownMethods == {"bogus", "ping"}

LineEvent(line) == [kind |-> "line", line |-> line]

\* read_tag(params): has_name tells whether params holds a tag_name, failed
\* whether the driver flags the read in error
read_tag(has_name, value, failed) ==
    /\ response' =
          IF ~ connected
          THEN [method |-> "read_tag", error |-> -32000,
                message |-> "Not connected to PLC"]
          ELSE IF ~ has_name
          THEN [method |-> "read_tag", error |-> -32000,
                message |-> "tag_name parameter required"]
          ELSE IF failed
          THEN [method |-> "read_tag", error |-> 0, value |-> None,
                read_error |-> "Read error"]
          ELSE [method |-> "read_tag", error |-> 0, value |-> value,
                read_error |-> "None"]
    /\ hist' = [hist EXCEPT !.ev = RpcEvent("read_tag", response'.error = 0)]
    /\ UNCHANGED <<connected, max_tags_per_group, max_concurrent_connections,
                   polling, tag_map, tag_configs, poll_groups, last_values,
                   poll_tasks, group_connections, tasks, sessions, stdout, now,
                   ARRAY_READ_MODE>>

\* a request object whose method handle_request does not know
UnknownMethod(req_id, method) ==
    /\ serving
    /\ reply' = [jsonrpc |-> "2.0",
                 error |-> [code |-> -32601, message |-> <<"Method not found: ", method>>],
                 id |-> req_id]
    /\ hist' = [hist EXCEPT !.ev = LineEvent("unknown")]
    /\ UNCHANGED <<connected, max_tags_per_group, max_concurrent_connections,
                   polling, tag_map, tag_configs, poll_groups, last_values,
                   poll_tasks, group_connections, tasks, sessions, stdout,
                   response, serving, now, ARRAY_READ_MODE>>

\* a line of white space only: nothing is printed
ReadBlank ==
    /\ serving
    /\ reply' = NoReply
    /\ hist' = [hist EXCEPT !.ev = LineEvent("blank")]
    /\ UNCHANGED <<connected, max_tags_per_group, max_concurrent_connections,
                   polling, tag_map, tag_configs, poll_groups, last_values,
                   poll_tasks, group_connections, tasks, sessions, stdout,
                   response, serving, now, ARRAY_READ_MODE>>

\* a line that json.loads rejects
ReadGarbage ==
    /\ serving
    /\ reply' = [jsonrpc |-> "2.0",
                 error |-> [code |-> -32700, message |-> "Parse error: Invalid JSON"],
                 id |-> None]
    /\ hist' = [hist EXCEPT !.ev = LineEvent("garbage")]
    /\ UNCHANGED <<connected, max_tags_per_group, max_concurrent_connections,
                   polling, tag_map, tag_configs, poll_groups, last_values,
                   poll_tasks, group_connections, tasks, sessions, stdout,
                   response, serving, now, ARRAY_READ_MODE>>

\* the end of read_stdin_async and of the process: asyncio.run cancels the
\* tasks left and waits for them, then stop_polling and, when connected,
\* disconnect run; nothing is printed
ReaderEnds(line, closes) ==
    /\ serving
    /\ serving' = FALSE
    /\ reply' = NoReply
    /\ tasks' = EmptyFun
    /\ polling' = FALSE
    /\ poll_tasks' = EmptyFun
    /\ sessions' = StopPollingResult(closes).sess
    /\ group_connections' = EmptyFun
    /\ connected' = FALSE
    /\ last_values' = IF connected THEN EmptyFun ELSE last_values
    /\ hist' = [hist EXCEPT !.ev = LineEvent(line), !.superseded = {}]
    /\ UNCHANGED <<max_tags_per_group, max_concurrent_connections, tag_map,
                   tag_configs, poll_groups, stdout, response, now,
                   ARRAY_READ_MODE>>

\* readline returned the empty string: end of input
ReadEof(closes) == ReaderEnds("eof", closes)

\* a line that holds valid JSON that is not an object (a list, a number, a
\* string, null): request.get raises AttributeError, which the handler of the
\* reader loop answers with break
ReadNonObject(closes) == ReaderEnds("non_object", closes)

\* the requests with id req_id for the methods handle_request knows
KnownRequest(req_id) ==
    \/ \E opened \in BOOLEAN :
          Serve(req_id, connect(DEFAULT_MAX_TAGS_PER_GROUP,
                                DEFAULT_MAX_CONCURRENT_CONNECTIONS, opened))
    \/ Serve(req_id, disconnect)
    \/ hist.req = NoRequest /\ Serve(req_id, subscribe_polling(ReqTwoGroups))
    \/ \E closes \in [DOMAIN group_connections -> CloseOutcomes] :
          Serve(req_id, stop_polling(closes))
    \/ \E has_name, failed \in BOOLEAN : \E value \in Vals :
          Serve(req_id, read_tag(has_name, value, failed))

NextRpc ==
    \/ \E req_id \in RequestIds : KnownRequest(req_id)
    \/ \E req_id \in RequestIds, method \in UnknownMethods :
          UnknownMethod(req_id, method)
    \/ ReadBlank
    \/ ReadGarbage
    \/ \E closes \in [DOMAIN group_connections -> CloseOutcomes] : ReadNonObject(closes)
    \/ \E closes \in [DOMAIN group_connections -> CloseOutcomes] : ReadEof(closes)
    \/ \E t \in DOMAIN tasks : RunnerStart(t, "ok")
    \/ \E t \in DOMAIN tasks : RunnerCancelled(t)

SpecRpc == Init /\ [][NextRpc]_vars

\* the step read a line that is not empty
NonEmptyLineRead ==
    \/ hist'.ev.kind = "rpc"
    \/ hist'.ev.kind = "line" /\ hist'.ev.line \in {"garbage", "non_object", "unknown"}

C19_StepAnswers ==
    /\ (serving /\ NonEmptyLineRead) => (reply' # NoReply /\ serving')
    /\ (serving /\ ~ serving') => hist'.ev = LineEvent("eof")

\* C19: every non-empty line read from stdin, whatever its content, gets one
\* response line and the reader goes on to the next line; the reader loop
\* ends only at end of input.
C19_ReaderKeepsServing == [][C19_StepAnswers]_vars

\* the same for the lines that are unparsable or hold a request object
C19_StepAnswersObjects ==
    (serving /\ NonEmptyLineRead /\ hist'.ev # LineEvent("non_object"))
        => (reply' # NoReply /\ serving')

C19_ObjectsAnswered == [][C19_StepAnswersObjects]_vars

ErrorReply(code, message, req_id) ==
    [jsonrpc |-> "2.0", error |-> [code |-> code, message |-> message], id |-> req_id]

C20_StepErrorCodes ==
    /\ \A req_id \in RequestIds :
          /\ \A method \in UnknownMethods :
                UnknownMethod(req_id, method) =>
                    reply' = ErrorReply(-32601, <<"Method not found: ", method>>, req_id)
          /\ (~ connected /\ \E has_name, failed \in BOOLEAN : \E value \in Vals :
                                Serve(req_id, read_tag(has_name, value, failed)))
                => reply' = ErrorReply(-32000, "Not connected to PLC", req_id)
          /\ (connected /\ \E failed \in BOOLEAN : \E value \in Vals :
                              Serve(req_id, read_tag(FALSE, value, failed)))
                => reply' = ErrorReply(-32000, "tag_name parameter required", req_id)
          /\ (~ connected /\ Serve(req_id, subscribe_polling(ReqTwoGroups)))
                => reply' = ErrorReply(-32000, "Not connected to PLC", req_id)
          /\ Serve(req_id, connect(DEFAULT_MAX_TAGS_PER_GROUP,
                                   DEFAULT_MAX_CONCURRENT_CONNECTIONS, FALSE))
                => reply' = ErrorReply(-32000, "Failed to connect", req_id)
    /\ ReadGarbage => reply' = ErrorReply(-32700, "Parse error: Invalid JSON", None)
    /\ ~ ({"result", "error"} \subseteq DOMAIN reply')

\* C20: a request with an unknown method is answered with code -32601 and
\* the request's id, a line that is not parsable JSON with code -32700 and id
\* null, a known method whose handler raises with code -32000, the message of
\* the exception and the request's id; no response carries both result and
\* error.
C20_ErrorCodes == [][C20_StepErrorCodes]_vars

\* C20 witness: read_tag with id 2 was called while not connected and was
\* answered with code -32000, the message of the ConnectionError and id 2.
C20_Witness ==
    /\ hist.ev = RpcEvent("read_tag", FALSE)
    /\ reply = ErrorReply(-32000, "Not connected to PLC", IntVal(2))

-----------------------------------------------------------------------------
(* The response to subscribe_polling and the runners it spawns              *)

\* the step is a call of subscribe_polling
SubscribeStep == hist'.ev.kind = "rpc" /\ hist'.ev.method = "subscribe_polling"

C21_StepRespondsThenSpawns ==
    SubscribeStep =>
        IF hist'.ev.ok
        THEN /\ "result" \in DOMAIN reply'
             /\ stdout' = stdout
             /\ DOMAIN poll_tasks' = Range(DictKeys(poll_groups'))
             /\ \A g \in DOMAIN poll_tasks' :
                   /\ poll_tasks'[g] \in DOMAIN tasks'
                   /\ tasks'[poll_tasks'[g]] = NewTask(g)
             /\ \A g, h \in DOMAIN poll_tasks' :
                   g # h => poll_tasks'[g] # poll_tasks'[h]
             /\ {t \in DOMAIN tasks' : tasks'[t].pc = "new"} = Range_of_fun(poll_tasks')
        ELSE /\ "error" \in DOMAIN reply'
             /\ stdout' = stdout
             /\ tasks' = tasks
             /\ poll_tasks' = poll_tasks

\* C21: when subscribe_polling returns, its response is written and no runner
\* of the new subscription has run yet (so none has emitted a frame); with a
\* success response exactly one runner, not yet started, exists per installed
\* group, and with an error response none was spawned.
C21_ResponseBeforeRunners == [][C21_StepRespondsThenSpawns]_vars

\* C21 witness: a second subscribe_polling has just returned success over a
\* subscription whose runners were polling, with two runners spawned.
C21_Witness ==
    /\ hist.ev = RpcEvent("subscribe_polling", TRUE)
    /\ "result" \in DOMAIN reply
    /\ hist.installs = 2
    /\ hist.superseded # {}
    /\ Cardinality(DOMAIN poll_tasks) = 2
    /\ \A g \in DOMAIN poll_tasks : tasks[poll_tasks[g]].pc = "new"

-----------------------------------------------------------------------------
(* The soft cap on the number of group sessions                             *)

\* max_concurrent_connections values given to connect
MaxCap == 2

NextCap ==
    \/ \E limit \in 1..MaxLimit, cap \in 1..MaxCap : RpcConnect(limit, cap, TRUE)
    \/ \E req \in (IF hist.req = NoRequest THEN ReqsSub ELSE ReqsAgain) :
          hist.installs < MaxInstalls /\ RpcSubscribePolling(req)

SpecCap == Init /\ [][NextCap]_vars

\* number of groups the accepted request asks for, after splitting
GroupsAfterSplitting ==
    SeqSum([k \in 1..Len(hist.req.poll_groups) |-> ChunksOfRequested(k)])

C22_StepSoftCap ==
    (SubscribeStep /\ hist'.ev.ok) =>
        LET n == GroupsAfterSplitting'
        IN  /\ Len(poll_groups') = n
            /\ Cardinality(DOMAIN poll_tasks') = n
            /\ polling'
            /\ "result" \in DOMAIN reply'
            /\ reply'.result.success
            /\ reply'.result.group_count = n
            /\ IF n > max_concurrent_connections
               THEN /\ "warnings" \in DOMAIN reply'.result
                    /\ reply'.result.warnings # <<>>
               ELSE "warnings" \notin DOMAIN reply'.result

\* C22: a subscribe_polling whose groups, after splitting, outnumber
\* max_concurrent_connections still installs every group, sets polling and
\* answers success with a non-empty warnings list; when the groups do not
\* outnumber the cap the result has no warnings field.
C22_SoftCap == [][C22_StepSoftCap]_vars

\* C22 witness: three groups were installed over a cap of two, and the result
\* carries a warning
C22_Witness ==
    /\ hist.ev = RpcEvent("subscribe_polling", TRUE)
    /\ max_concurrent_connections = 2
    /\ Len(poll_groups) = 3
    /\ polling
    /\ "result" \in DOMAIN reply
    /\ "warnings" \in DOMAIN reply.result

\* C22 witness: as many groups as the cap allows were installed, and the
\* result has no warnings field
C22_WitnessAtCap ==
    /\ hist.ev = RpcEvent("subscribe_polling", TRUE)
    /\ Len(poll_groups) = max_concurrent_connections
    /\ "result" \in DOMAIN reply
    /\ "warnings" \notin DOMAIN reply.result

-----------------------------------------------------------------------------
(* Every sample goes through the change filter                              *)

\* the samples of one iteration passed one after the other through the
\* filter, starting from the cache lasts at time t: the decisions made
RECURSIVE FilterDecisions(_, _, _, _)
FilterDecisions(samples, cfgs, lasts, t) ==
    IF samples = <<>> THEN <<>>
    ELSE LET sample  == Head(samples)
             publish == HasValueChanged(cfgs, lasts, t, sample.tag_id,
                                        sample.v, sample.q)
             after   == IF publish
                        THEN UpdateLastValue(lasts, t, sample.tag_id,
                                             sample.v, sample.q)
                        ELSE lasts
         IN  <<publish>> \o FilterDecisions(Tail(samples), cfgs, after, t)

\* the samples of the iteration that were printed as frames
PublishedSamples(samples) ==
    LET keep(i) == samples[i].published
        RECURSIVE Sel(_)
        Sel(i) == IF i > Len(samples) THEN <<>>
                  ELSE (IF keep(i)
                        THEN <<[tag_id |-> samples[i].tag_id, v |-> samples[i].v,
                                q |-> samples[i].q]>>
                        ELSE <<>>) \o Sel(i + 1)
    IN  Sel(1)

C23_StepFiltersEverySample ==
    hist'.ev.kind = "poll" =>
        LET ev == hist'.ev
            decisions == FilterDecisions(ev.samples, tag_configs, last_values, now)
        IN  /\ \A i \in 1..Len(ev.samples) :
                  /\ ev.filtered[i]
                  /\ ev.samples[i].published = decisions[i]
            /\ [i \in 1..Len(ev.frames) |->
                   [tag_id |-> ev.frames[i].tag_id, v |-> ev.frames[i].v,
                    q |-> ev.frames[i].q]] = PublishedSamples(ev.samples)

\* C23: every sample of a poll iteration, the (null, bad) samples of a
\* full array flagged in error included, is passed to the change filter, and
\* the frames printed by the iteration are exactly the samples the filter
\* decided to publish.
C23_EverySampleFiltered == [][C23_StepFiltersEverySample]_vars

-----------------------------------------------------------------------------
(* The last-value record follows the frames emitted                         *)

\* the record of tag x in a cache, or None when there is none
RecordOf(lasts, x) == IF x \in DOMAIN lasts THEN lasts[x] ELSE None

C24_StepRecordFollowsFrames ==
    hist'.ev.kind = "poll" =>
        LET ev == hist'.ev
        IN  /\ \A x \in DOMAIN hist'.last_frame :
                  /\ x \in DOMAIN last_values'
                  /\ last_values'[x].value = hist'.last_frame[x].v
                  /\ last_values'[x].quality = hist'.last_frame[x].q
            /\ \A i \in 1..Len(ev.samples) :
                  LET x == ev.samples[i].tag_id
                  IN  (\A j \in 1..Len(ev.samples) :
                          ev.samples[j].tag_id = x => ~ ev.samples[j].published)
                      => RecordOf(last_values', x) = RecordOf(last_values, x)

\* C24: after every poll iteration the last-value record of each tag that has
\* had a frame emitted (the cache is never cleared here) holds the value and
\* quality of the tag's most recent frame, and a tag whose samples were all
\* skipped keeps its record, timestamp included.
C24_RecordFollowsFrames == [][C24_StepRecordFollowsFrames]_vars

-----------------------------------------------------------------------------
(* Recovery from a recoverable session error: two groups whose sessions    *)
(* open at the start and whose reads return or raise a recoverable error    *)

\* the clock stops after MaxTimeRecover ticks
MaxTimeRecover == 3

NextRecover ==
    \/ ~ connected /\ RpcConnect(DEFAULT_MAX_TAGS_PER_GROUP,
                                 DEFAULT_MAX_CONCURRENT_CONNECTIONS, TRUE)
    \/ hist.installs = 0 /\ RpcSubscribePolling(ReqTwoGroups)
    \/ \E t \in DOMAIN tasks : RunnerStart(t, "ok")
    \/ \E t \in DOMAIN tasks : \E results \in ReadOutcomes(t, Vals, FALSE) :
          RunnerReadReturn(t, results)
    \/ \E t \in DOMAIN tasks : RunnerReadRaise(t, TRUE)
    \/ \E t \in DOMAIN tasks, o \in OpenOutcomes : RunnerRecover(t, o)
    \/ \E t \in DOMAIN tasks : RunnerWake(t)
    \/ TickTimed(MaxTimeRecover)

SpecRecover == Init /\ [][NextRecover]_vars

\* the read of runner t raised a recoverable session error: its session is
\* closed and unregistered and the runner waits 2 s
C25_StepDiscards ==
    \A t \in DOMAIN tasks :
        RunnerReadRaise(t, TRUE) =>
            /\ tasks[t].group_id \notin DOMAIN group_connections'
            /\ tasks[t].group_plc \notin DOMAIN sessions'
            /\ t \in DOMAIN tasks'
            /\ tasks'[t].pc = "recover_sleep"
            /\ tasks'[t].wake_at = now + 2000
            /\ stdout' = stdout

\* the step that ends the recovery wait of runner t, polling being on
C25_StepReopens ==
    \A t \in DOMAIN tasks :
        (Runs(t, {"recover_sleep"}) /\ polling /\ hist'.ev = RunEvent(t)) =>
            LET g == tasks[t].group_id
            IN  /\ now >= tasks[t].wake_at
                /\ g \notin DOMAIN group_connections
                /\ \/ /\ t \in DOMAIN tasks'
                      /\ tasks'[t].pc = "backoff"
                      /\ g \in DOMAIN group_connections'
                      /\ group_connections'[g] = tasks'[t].group_plc
                      /\ group_connections'[g] \notin DOMAIN sessions
                      /\ sessions'[group_connections'[g]] = "connected"
                   \/ /\ t \in DOMAIN tasks' => tasks'[t].pc = "done"
                      /\ g \notin DOMAIN group_connections'

\* every read in flight goes through an open session that is the one
\* registered for the group of its runner
ReadsOnRegisteredSession ==
    \A u \in DOMAIN tasks :
        tasks[u].pc = "reading" =>
            /\ tasks[u].group_plc \in DOMAIN sessions
            /\ sessions[tasks[u].group_plc] = "connected"
            /\ tasks[u].group_id \in DOMAIN group_connections
            /\ group_connections[tasks[u].group_id] = tasks[u].group_plc

\* C25: on an exception whose text holds "forward_close" or "failed to
\* parse reply" the runner closes and unregisters its session and waits 2 s;
\* then, polling being on, either it opens a new connected session, registers
\* it under its group id and reads through it from then on, or (open raised
\* or session not connected) it ends with no session registered for its group.
C25_SessionRecovery ==
    /\ [][C25_StepDiscards /\ C25_StepReopens]_vars
    /\ []ReadsOnRegisteredSession

\* C25 witness: a runner that never completed an iteration is reading 3 s
\* after its start, which takes a discarded session, the 2 s wait, a session
\* recreated and the back-off of one period; the read goes through the
\* session now registered for its group
C25_Witness ==
    \E t \in DOMAIN tasks :
        /\ tasks[t].pc = "reading"
        /\ tasks[t].next_poll = TickMs
        /\ now = 3 * TickMs
        /\ group_connections[tasks[t].group_id] = tasks[t].group_plc

\* C25 witness: a runner has left its loop while polling is on, after a
\* recreated session that raised or was not connected, and its group has no
\* session registered
C25_WitnessGivesUp ==
    /\ polling
    /\ \E g \in DOMAIN poll_tasks :
          /\ poll_tasks[g] \in DOMAIN tasks
          /\ tasks[poll_tasks[g]].pc = "done"
          /\ g \notin DOMAIN group_connections

-----------------------------------------------------------------------------
(* The start of a runner: two groups whose sessions can fail to open and    *)
(* whose reads return                                                       *)

\* the clock stops after MaxTimeStart ticks
MaxTimeStart == 3

NextStart ==
    \/ ~ connected /\ RpcConnect(DEFAULT_MAX_TAGS_PER_GROUP,
                                 DEFAULT_MAX_CONCURRENT_CONNECTIONS, TRUE)
    \/ hist.installs = 0 /\ RpcSubscribePolling(ReqTwoGroups)
    \/ \E t \in DOMAIN tasks, o \in OpenOutcomes : RunnerStart(t, o)
    \/ \E t \in DOMAIN tasks, o \in OpenOutcomes : RunnerRetry(t, o)
    \/ \E t \in DOMAIN tasks : \E results \in ReadOutcomes(t, Vals, FALSE) :
          RunnerReadReturn(t, results)
    \/ \E t \in DOMAIN tasks : RunnerWake(t)
    \/ TickTimed(MaxTimeStart)

SpecStart == Init /\ [][NextStart]_vars

\* the states of a runner inside its polling loop
LoopPcs == {"reading", "sleeping", "idle_sleep", "backoff", "recover_sleep"}

\* the step in which runner t makes an attempt to open its session; the
\* attempts are numbered from 1
C26_StepAttempt ==
    \A t \in DOMAIN tasks :
        (Runs(t, {"new", "retry_sleep"}) /\ hist'.ev = RunEvent(t)) =>
            LET g == tasks[t].group_id
                k == IF tasks[t].pc = "new" THEN 1 ELSE tasks[t].attempt + 1
            IN  /\ k \in 1..3
                /\ g \notin DOMAIN group_connections
                /\ tasks[t].pc = "retry_sleep" =>
                      /\ k >= 2
                      /\ now >= tasks[t].wake_at
                /\ stdout' = stdout
                /\ \/ /\ t \in DOMAIN tasks'
                      /\ tasks'[t].pc \in LoopPcs
                      /\ g \in DOMAIN group_connections'
                      /\ group_connections'[g] = tasks'[t].group_plc
                      /\ group_connections'[g] \notin DOMAIN sessions
                      /\ sessions'[group_connections'[g]] = "connected"
                   \/ /\ k < 3
                      /\ t \in DOMAIN tasks'
                      /\ tasks'[t].pc = "retry_sleep"
                      /\ tasks'[t].attempt + 1 = k + 1
                      /\ tasks'[t].wake_at = now + k * 1000
                      /\ g \notin DOMAIN group_connections'
                   \/ /\ k = 3
                      /\ t \in DOMAIN tasks' => tasks'[t].pc = "done"
                      /\ g \notin DOMAIN group_connections'

\* a runner is inside its loop only on steps of a runner already inside it
\* or on an attempt
C26_StepEntersLoop ==
    \A t \in DOMAIN tasks' :
        tasks'[t].pc \in LoopPcs =>
            /\ t \in DOMAIN tasks
            /\ \/ tasks[t].pc \in LoopPcs
               \/ tasks[t].pc \in {"new", "retry_sleep"} /\ hist'.ev = RunEvent(t)

\* C26: a runner makes at most 3 attempts to open its session, the first at
\* once and attempt k = 2, 3 after a wait of (k - 1) s; it enters its polling
\* loop only on an attempt that produced a connected session registered under
\* its group id, and after a third failed attempt it ends without polling and
\* without a session registered for its group.
C26_StartRetry == [][C26_StepAttempt /\ C26_StepEntersLoop]_vars

\* C26 witness: a runner has ended after its third failed attempt, polling
\* is on and its group has no session
C26_Witness ==
    /\ polling
    /\ \E g \in DOMAIN poll_tasks :
          /\ poll_tasks[g] \in DOMAIN tasks
          /\ tasks[poll_tasks[g]].pc = "done"
          /\ g \notin DOMAIN group_connections
          /\ \E h \in DOMAIN group_connections : h # g

\* C26 witness: a runner waits 2 s before its third attempt
C26_WitnessWaits ==
    \E t \in DOMAIN tasks :
        /\ tasks[t].pc = "retry_sleep"
        /\ tasks[t].attempt = 2
        /\ tasks[t].wake_at = now + 2 * TickMs

-----------------------------------------------------------------------------
(* Cancellation of the runners: two groups under a driver that can fail,    *)
(* stopped or subscribed again at any moment                                *)

\* the clock stops after MaxTimeCancel ticks
MaxTimeCancel == 2

\* what opening a session does: it connects or it raises
OpenOutcomesCancel == {"ok", "raise"}

\* no task is waiting for its CancelledError. The event loop runs its
\* callbacks in the order they were scheduled: cancel() schedules the wake-up
\* of the task before the reader's next readline completes and before the
\* first step of a task created after it
NoCancelPending == \A t \in DOMAIN tasks : ~ tasks[t].cancelled

NextCancel ==
    \/ ~ connected /\ RpcConnect(DEFAULT_MAX_TAGS_PER_GROUP,
                                 DEFAULT_MAX_CONCURRENT_CONNECTIONS, TRUE)
    \/ /\ NoCancelPending
       /\ hist.installs < MaxInstalls
       /\ RpcSubscribePolling(ReqTwoGroups)
    \/ /\ NoCancelPending
       /\ hist.installs < MaxInstalls
       /\ \E closes \in [DOMAIN group_connections -> CloseOutcomes] :
             StopPollingWith(closes)
    \/ \E t \in DOMAIN tasks, o \in OpenOutcomesCancel :
          NoCancelPending /\ RunnerStart(t, o)
    \/ \E t \in DOMAIN tasks, o \in OpenOutcomesCancel : RunnerRetry(t, o)
    \/ \E t \in DOMAIN tasks : \E results \in ReadOutcomes(t, Vals, FALSE) :
          RunnerReadReturn(t, results)
    \/ \E t \in DOMAIN tasks, recoverable \in BOOLEAN : RunnerReadRaise(t, recoverable)
    \/ \E t \in DOMAIN tasks, o \in OpenOutcomesCancel : RunnerRecover(t, o)
    \/ \E t \in DOMAIN tasks : RunnerWake(t)
    \/ \E t \in DOMAIN tasks : RunnerCancelled(t)
    \/ TickTimed(MaxTimeCancel)

SpecCancel == Init /\ [][NextCancel]_vars

\* the event loop runs every task that is ready: a cancelled task gets its
\* CancelledError
SpecCancelFair ==
    SpecCancel /\ \A t \in 1..MaxTasks : WF_vars(RunnerCancelled(t))

\* the awaits of poll_group: the sleep before a later attempt, the batch
\* read, the sleep until the deadline, the wait before the session is
\* recreated, the sleep after an error
SuspensionPoints == {"retry_sleep", "reading", "sleeping", "recover_sleep", "backoff"}

\* the task has ended
Terminated(tsk, t) == t \notin DOMAIN tsk \/ tsk[t].pc = "done"

\* session s is open in sess and has not been given a close
StillOpen(sess, s) == s \in DOMAIN sess /\ sess[s] = "connected"

\* the step that cancels runner t is a call of stop_polling, alone or inside
\* subscribe_polling; the runner is at an await, and the session it reads
\* through is given its close in the same step
C27_StepCancels ==
    \A t \in DOMAIN tasks \cap DOMAIN tasks' :
        (~ tasks[t].cancelled /\ tasks'[t].cancelled) =>
            /\ hist'.ev.kind = "rpc"
            /\ hist'.ev.method \in {"stop_polling", "subscribe_polling"}
            /\ tasks[t].pc \in SuspensionPoints
            /\ tasks'[t].pc = tasks[t].pc
            /\ tasks[t].pc \in {"reading", "sleeping", "backoff"} =>
                  /\ StillOpen(sessions, tasks[t].group_plc)
                  /\ ~ StillOpen(sessions', tasks[t].group_plc)

\* a cancelled runner stays at its await until it ends, no frame is printed
\* meanwhile, and no session is open or registered for its group
C27_StepCancelled ==
    \A t \in DOMAIN tasks :
        tasks[t].cancelled =>
            /\ tasks[t].pc \in SuspensionPoints
            /\ tasks[t].group_id \notin DOMAIN group_connections
            /\ \A x \in DOMAIN sessions : ~ StillOpen(sessions, x)
            /\ \/ t \in DOMAIN tasks' /\ tasks'[t] = tasks[t]
               \/ Terminated(tasks', t)
            /\ stdout' = stdout

\* C27: a runner cancelled by stop_polling or by a new subscribe_polling ends
\* at the await it is suspended on (the sleep before an attempt, the batch
\* read, the deadline sleep, the recovery wait or the error back-off) and
\* prints no frame after the cancellation; when it ends its session has been
\* given its close and is not registered; and every cancelled runner ends.
C27_CancelledRunnersEnd ==
    /\ [][C27_StepCancels /\ C27_StepCancelled]_vars
    /\ \A t \in 1..MaxTasks :
          (t \in DOMAIN tasks /\ tasks[t].cancelled) ~> Terminated(tasks, t)

\* C27 witness: stop_polling has cancelled a runner during its batch read and
\* another during a sleep; the sessions of both are closed and unregistered
C27_Witness ==
    /\ hist.ev = RpcEvent("stop_polling", TRUE)
    /\ group_connections = EmptyFun
    /\ \E t, u \in DOMAIN tasks :
          /\ tasks[t].cancelled /\ tasks[t].pc = "reading"
          /\ tasks[u].cancelled /\ tasks[u].pc = "sleeping"
          /\ \A x \in DOMAIN sessions : ~ StillOpen(sessions, x)

\* C27 witness: the runners cancelled by a second subscribe_polling have all
\* ended, none of the new ones has started
C27_WitnessEnded ==
    /\ hist.installs = MaxInstalls
    /\ polling
    /\ hist.ev.kind = "run"
    /\ stdout # <<>>
    /\ DOMAIN tasks # {}
    /\ \A t \in DOMAIN tasks : tasks[t].pc = "new"

-----------------------------------------------------------------------------
(* Closing a session under a read in flight                                 *)

\* the batch read of runner t is executing in a worker thread on an open
\* session
ReadInFlight(t) ==
    /\ tasks[t].pc = "reading"
    /\ ~ tasks[t].cancelled
    /\ StillOpen(sessions, tasks[t].group_plc)

C28_StepNoCloseUnderRead ==
    \A t \in DOMAIN tasks :
        (ReadInFlight(t) /\ ~ StillOpen(sessions', tasks[t].group_plc)) =>
            hist'.ev = RunEvent(t)

\* C28: a session is given its close only once the batch read submitted on
\* it has returned or raised: no step other than the runner's own handling of
\* the outcome of its read closes a session whose read is in flight.
C28_NoCloseUnderRead == [][C28_StepNoCloseUnderRead]_vars

-----------------------------------------------------------------------------
(* Ownership of the group sessions: two groups, sessions that break and are *)
(* recreated, subscriptions replaced and stopped, the default session       *)
(* closed by disconnect                                                     *)

\* the clock stops after MaxTimeOwn ticks
MaxTimeOwn == 2

NextOwn ==
    \/ ~ connected /\ RpcConnect(DEFAULT_MAX_TAGS_PER_GROUP,
                                 DEFAULT_MAX_CONCURRENT_CONNECTIONS, TRUE)
    \/ NoCancelPending /\ connected /\ RpcDisconnect
    \/ /\ NoCancelPending
       /\ hist.installs < MaxInstalls
       /\ RpcSubscribePolling(ReqTwoGroups)
    \/ NoCancelPending /\ hist.installs < MaxInstalls /\ RpcStopPolling
    \/ \E t \in DOMAIN tasks : NoCancelPending /\ RunnerStart(t, "ok")
    \/ \E t \in DOMAIN tasks : \E results \in ReadOutcomes(t, Vals, FALSE) :
          RunnerReadReturn(t, results)
    \/ \E t \in DOMAIN tasks : RunnerReadRaise(t, TRUE)
    \/ \E t \in DOMAIN tasks, o \in OpenOutcomesCancel : RunnerRecover(t, o)
    \/ \E t \in DOMAIN tasks : RunnerWake(t)
    \/ \E t \in DOMAIN tasks : RunnerCancelled(t)
    \/ TickTimed(MaxTimeOwn)

SpecOwn == Init /\ [][NextOwn]_vars

\* no driver is registered under two group ids
OneGroupPerSession ==
    \A g, h \in DOMAIN group_connections :
        g # h => group_connections[g] # group_connections[h]

\* the runners whose batch read is in the executor
Reading == {u \in DOMAIN tasks : tasks[u].pc = "reading" /\ ~ tasks[u].cancelled}

\* every batch read goes through a driver made by poll_group (sessions holds
\* these and never self.plc, the driver of connect) that is registered under
\* the group id of the runner that reads
ReadsOnOwnSession ==
    \A u \in Reading :
        /\ tasks[u].group_plc \in DOMAIN sessions
        /\ tasks[u].group_id \in DOMAIN group_connections
        /\ group_connections[tasks[u].group_id] = tasks[u].group_plc
        /\ \A v \in Reading : v # u => tasks[v].group_plc # tasks[u].group_plc

\* C29: at every reachable state no driver session is registered under two
\* group ids, every batch read in flight was issued on the session registered
\* for the group of its runner, and that session is one opened by a runner,
\* never the one opened by connect.
C29_SessionOwnership == OneGroupPerSession /\ ReadsOnOwnSession

\* C29 witness: the two runners read at the same time, each through the
\* session of its own group, after disconnect closed the default session
C29_Witness ==
    /\ ~ connected
    /\ hist.ev.kind = "run"
    /\ Cardinality(Reading) = 2
    /\ Cardinality(DOMAIN group_connections) = 2
    /\ stdout # <<>>

-----------------------------------------------------------------------------
(* The group ids of the extra chunks: requests of up to three groups, in    *)
(* any order of their ids, none, one or two of them oversized               *)

\* the group ids a request can use, in any order
GroupIdsChunk == {1, 2, 5}

\* the tag_ids lists a requested group can hold
TagIdListsChunk == {<<1>>, <<1, 2>>, <<1, 2, 3>>}

PollGroupsChunk ==
    UNION {{[i \in 1..Len(gids) |->
                [group_id |-> gids[i], rate_ms |-> TickMs, tag_ids |-> lists[i]]] :
              lists \in [1..Len(gids) -> TagIdListsChunk]} :
           gids \in {g \in SeqsUpTo(GroupIdsChunk, Cardinality(GroupIdsChunk)) :
                        Len(g) > 0 /\ DistinctGroupIds(g)}}

ReqsChunk == {[tags |-> TagsSub, poll_groups |-> pg] : pg \in PollGroupsChunk}

NextChunk ==
    \/ \E limit \in 1..MaxLimit :
          RpcConnect(limit, DEFAULT_MAX_CONCURRENT_CONNECTIONS, TRUE)
    \/ \E req \in ReqsChunk : hist.installs = 0 /\ RpcSubscribePolling(req)

SpecChunk == Init /\ [][NextChunk]_vars

\* the group ids of the request
RequestGroupIds ==
    {hist.req.poll_groups[k].group_id : k \in 1..Len(hist.req.poll_groups)}

\* the requested groups that were split
OversizedGroups ==
    {k \in 1..Len(hist.req.poll_groups) : ChunksOfRequested(k) > 1}

\* the ids of the chunks after the first of every split group, in the order
\* the chunks were created
ExtraChunkIds ==
    Flatten([k \in 1..Len(hist.req.poll_groups) |->
                [c \in 1..(ChunksOfRequested(k) - 1) |->
                    ChunksInstalledFor(k)[c + 1][1]]])

\* C30: the group ids given to the chunks after the first of the split
\* groups are strictly increasing in creation order (hence pairwise
\* distinct) and greater than every group id of the request, however many
\* groups are oversized; no chunk replaces another entry: the installed map
\* has one entry per chunk, under pairwise distinct ids.
C30_ExtraChunkIds ==
    Installed =>
        /\ Len(poll_groups) =
              SeqSum([k \in 1..Len(hist.req.poll_groups) |-> ChunksOfRequested(k)])
        /\ \A i, j \in 1..Len(poll_groups) :
              i # j => poll_groups[i][1] # poll_groups[j][1]
        /\ \A i \in 1..Len(ExtraChunkIds) :
              /\ \A g \in RequestGroupIds : ExtraChunkIds[i] > g
              /\ \A j \in 1..Len(ExtraChunkIds) :
                    i < j => ExtraChunkIds[i] < ExtraChunkIds[j]

\* C30 witness: two requested groups, the one with the greater id first,
\* were both split, and the extra chunks got the ids 6 and 7
C30_Witness ==
    /\ Installed
    /\ Cardinality(OversizedGroups) = 2
    /\ hist.req.poll_groups[1].group_id = 5
    /\ hist.req.poll_groups[2].group_id = 1
    /\ ExtraChunkIds = <<6, 7>>
    /\ Len(poll_groups) = 4

\* C30 witness: one group cut into three chunks among groups that are not
\* split
C30_WitnessThreeChunks ==
    /\ Installed
    /\ Cardinality(OversizedGroups) = 1
    /\ Len(hist.req.poll_groups) = 2
    /\ Len(ExtraChunkIds) = 2

-----------------------------------------------------------------------------
(* The deadline of a runner                                                 *)

\* the step is an iteration of runner t that read and emitted without raising
CompletedPoll(t) ==
    /\ hist'.ev.kind = "poll"
    /\ hist'.ev.task = t
    /\ ~ hist'.ev.raised
    /\ t \in DOMAIN tasks'

\* next_poll is advanced by one period, reset to now + period when that is in
\* the past, and the runner sleeps until it
C31_StepAdvancesDeadline ==
    \A t \in DOMAIN tasks :
        CompletedPoll(t) =>
            LET advanced == tasks[t].next_poll + tasks[t].rate_ms
            IN  /\ tasks'[t].next_poll =
                      IF advanced < now THEN now + tasks[t].rate_ms ELSE advanced
                /\ tasks'[t].pc = "sleeping"
                /\ tasks'[t].wake_at >= now
                /\ tasks'[t].wake_at >= tasks'[t].next_poll
                /\ tasks'[t].wake_at \in {now, tasks'[t].next_poll}

\* a runner that keeps up (its iteration ended before the advanced deadline)
\* starts its next iteration one period after it started this one
C31_StepOnePeriodApart ==
    \A t \in DOMAIN tasks :
        (CompletedPoll(t) /\ now <= tasks[t].timestamp + tasks[t].rate_ms) =>
            tasks'[t].wake_at = tasks[t].timestamp + tasks[t].rate_ms

\* C31: next_poll starts one period after the start and is advanced by one
\* period after each completed iteration, or set to now + period when the
\* advanced deadline is past, and the runner sleeps until it; hence the
\* iterations of a runner that keeps up start exactly one period apart.
C31_RateStabilisation ==
    [][C31_StepAdvancesDeadline /\ C31_StepOnePeriodApart]_vars

\* the rule of the deadline alone, without what is drawn from it
C31_DeadlineRule == [][C31_StepAdvancesDeadline]_vars

-----------------------------------------------------------------------------
(* Errors flagged on entries of a batch read                                *)

\* the clock stops after MaxTimeErr ticks
MaxTimeErr == 2

\* a scalar, a sparse element and two elements of a batched array, unfiltered
ReqErrMix ==
    [tags |-> << [tag_id |-> 1, tag_name |-> <<"T">>, poll_group_id |-> 1],
                 [tag_id |-> 2, tag_name |-> ElementTag(<<"B">>, 29), poll_group_id |-> 1],
                 [tag_id |-> 3, tag_name |-> ElementTag(<<"A">>, 0), poll_group_id |-> 1],
                 [tag_id |-> 4, tag_name |-> ElementTag(<<"A">>, 1), poll_group_id |-> 1] >>,
     poll_groups |-> << [group_id |-> 1, rate_ms |-> TickMs,
                         tag_ids |-> <<1, 2, 3, 4>>] >>]

\* a scalar named like the base of a batched array of the same group
ReqBaseScalar ==
    [tags |-> << [tag_id |-> 1, tag_name |-> <<"A">>, poll_group_id |-> 1],
                 [tag_id |-> 2, tag_name |-> ElementTag(<<"A">>, 0), poll_group_id |-> 1],
                 [tag_id |-> 3, tag_name |-> ElementTag(<<"A">>, 1), poll_group_id |-> 1] >>,
     poll_groups |-> << [group_id |-> 1, rate_ms |-> TickMs,
                         tag_ids |-> <<1, 2, 3>>] >>]

ReqsErr == {ReqErrMix, ReqBaseScalar}

\* the values the PLC holds: a number and a float the sanitizer removes
ValsErr == {IntVal(1), NaN}

NextErr ==
    \/ ~ connected /\ RpcConnect(DEFAULT_MAX_TAGS_PER_GROUP,
                                 DEFAULT_MAX_CONCURRENT_CONNECTIONS, TRUE)
    \/ \E req \in ReqsErr : hist.installs = 0 /\ RpcSubscribePolling(req)
    \/ \E t \in DOMAIN tasks : RunnerStart(t, "ok")
    \/ \E t \in DOMAIN tasks : \E results \in ReadOutcomes(t, ValsErr, FALSE) :
          RunnerReadReturn(t, results)
    \/ \E t \in DOMAIN tasks : RunnerWake(t)
    \/ TickTimed(MaxTimeErr)

SpecErr == Init /\ [][NextErr]_vars

\* the entry token of the read was planned for the tag named tag_name: the
\* tag itself (scalar or sparse element), or an element of the array BASE
\* for a token BASE{N}
EntryCovers(token, tag_name) ==
    IF IsCountToken(token)
    THEN IsArrayElement(tag_name) /\ BaseName(tag_name) = ResultTag(token)
    ELSE tag_name = token

\* the sample a result gives to a tag its entry covers
SampleOfEntry(token, result, tag_id, tag_name) ==
    IF result.error THEN [tag_id |-> tag_id, v |-> None, q |-> 1]
    ELSE IF IsCountToken(token)
         THEN LET index == IntOf(IndexStr(tag_name))
              IN  [tag_id |-> tag_id,
                   v |-> IF index < Len(result.value.v)
                         THEN sanitize_value(result.value.v[index + 1]) ELSE None,
                   q |-> 0]
         ELSE [tag_id |-> tag_id, v |-> sanitize_value(result.value), q |-> 0]

\* the samples of tag_id among the samples of a poll, in order
RECURSIVE SamplesOfTag(_, _)
SamplesOfTag(samples, tag_id) ==
    IF samples = <<>> THEN <<>>
    ELSE LET s == Head(samples)
             rest == SamplesOfTag(Tail(samples), tag_id)
         IN  IF s.tag_id = tag_id
             THEN <<[tag_id |-> s.tag_id, v |-> s.v, q |-> s.q]>> \o rest
             ELSE rest

\* the tags of runner t that are in the tag map
ResolvableTags(t) == {tag_id \in Range(tasks[t].tag_ids) : tag_id \in DOMAIN tag_map}

\* a batch read of runner t returned results: every tag of the group has the
\* one sample that the result of its own entry gives it
C32_StepSamplesOfOwnEntry(t, results) ==
    LET read_requests == tasks[t].plan.read_requests
    IN  \A tag_id \in ResolvableTags(t) :
          \A i \in 1..Len(read_requests) :
            EntryCovers(read_requests[i], tag_map[tag_id].tag_name) =>
                SamplesOfTag(hist'.ev.samples, tag_id) =
                    << SampleOfEntry(read_requests[i], results[i], tag_id,
                                     tag_map[tag_id].tag_name) >>

\* the tag names of the group of runner t do not collide: no two tags carry
\* one name, and no scalar is named like an array of the group
DistinctEntries(t) ==
    \A a, b \in ResolvableTags(t) :
        a # b =>
          /\ tag_map[a].tag_name # tag_map[b].tag_name
          /\ ~ (IsArrayElement(tag_map[a].tag_name)
                /\ BaseName(tag_map[a].tag_name) = tag_map[b].tag_name)

\* C32: when the driver flags entries of a batch read in error, each errored
\* scalar or sparse entry gives (null, q=1) to its tag, an errored full-array
\* entry gives (null, q=1) to every subscribed tag of its base, every entry
\* not flagged gives its sanitized value with q=0, and the sample of a tag
\* depends on no entry but its own.
C32_ErrorIsolation ==
    [][\A t \in DOMAIN tasks : \A results \in ReadOutcomes(t, ValsErr, FALSE) :
          RunnerReadReturn(t, results) => C32_StepSamplesOfOwnEntry(t, results)]_vars

\* the same for groups whose tag names do not collide
C32_ErrorIsolationDistinct ==
    [][\A t \in DOMAIN tasks : \A results \in ReadOutcomes(t, ValsErr, FALSE) :
          (RunnerReadReturn(t, results) /\ DistinctEntries(t)) =>
              C32_StepSamplesOfOwnEntry(t, results)]_vars

\* a poll of the group with the scalar A gave an element of the array A a
\* bad-quality sample
C32_WitnessCollision ==
    /\ hist.ev.kind = "poll"
    /\ hist.req = ReqBaseScalar
    /\ \E i \in 1..Len(hist.ev.samples) :
          hist.ev.samples[i].tag_id = 2 /\ hist.ev.samples[i].q = 1

-----------------------------------------------------------------------------
(* Exceptions that are neither session errors nor cancellations             *)

\* the clock stops after MaxTimeBackoff ticks
MaxTimeBackoff == 3

\* the driver raises only before FailUntil ticks have passed
FailUntil == 2

NextBackoff ==
    \/ ~ connected /\ RpcConnect(DEFAULT_MAX_TAGS_PER_GROUP,
                                 DEFAULT_MAX_CONCURRENT_CONNECTIONS, TRUE)
    \/ hist.installs = 0 /\ RpcSubscribePolling(ReqTwoGroups)
    \/ NoCancelPending /\ hist.installs = 1 /\ RpcStopPolling
    \/ \E t \in DOMAIN tasks : RunnerStart(t, "ok")
    \/ \E t \in DOMAIN tasks : \E results \in ReadOutcomes(t, Vals, FALSE) :
          RunnerReadReturn(t, results)
    \/ \E t \in DOMAIN tasks : now < FailUntil * TickMs /\ RunnerReadRaise(t, FALSE)
    \/ \E t \in DOMAIN tasks : RunnerWake(t)
    \/ \E t \in DOMAIN tasks : RunnerCancelled(t)
    \/ TickTimed(MaxTimeBackoff)

SpecBackoff == Init /\ [][NextBackoff]_vars

\* the event loop runs every task that is ready, timers fire, and a read that
\* the driver does not fail returns
SpecBackoffFair ==
    /\ SpecBackoff
    /\ \A t \in 1..MaxTasks :
          /\ WF_vars(RunnerStart(t, "ok"))
          /\ WF_vars(\E results \in ReadOutcomes(t, Vals, FALSE) :
                        RunnerReadReturn(t, results))
          /\ WF_vars(RunnerWake(t))
          /\ WF_vars(RunnerCancelled(t))
    /\ WF_vars(TickTimed(MaxTimeBackoff))

\* the read of runner t raised an exception that is no session error: the
\* runner lives on, its session stays open and registered, and it sleeps one
\* period
C33_StepBacksOff ==
    \A t \in DOMAIN tasks :
        RunnerReadRaise(t, FALSE) =>
            /\ t \in DOMAIN tasks'
            /\ tasks'[t].pc = "backoff"
            /\ tasks'[t].wake_at = now + tasks[t].rate_ms
            /\ tasks'[t].group_plc = tasks[t].group_plc
            /\ group_connections' = group_connections
            /\ sessions' = sessions
            /\ tasks[t].group_id \in DOMAIN group_connections'
            /\ group_connections'[tasks[t].group_id] = tasks[t].group_plc
            /\ poll_tasks' = poll_tasks

\* a runner in its back-off is left only by a cancellation or, once the
\* period has passed, by the start of its next iteration on the same session
C33_StepNextIteration ==
    \A t \in DOMAIN tasks :
        (tasks[t].pc = "backoff" /\ ~ tasks[t].cancelled /\ t \in DOMAIN tasks'
         /\ tasks'[t] # tasks[t]) =>
            \/ tasks'[t].cancelled
            \/ /\ now >= tasks[t].wake_at
               /\ tasks'[t].pc = "reading"
               /\ tasks'[t].group_plc = tasks[t].group_plc
               /\ StillOpen(sessions', tasks'[t].group_plc)

\* runner t has just polled its group
PolledBy(t) == hist.ev.kind = "poll" /\ hist.ev.task = t /\ ~ hist.ev.raised

\* C33: an exception in a poll iteration that is neither a recoverable
\* session error nor a cancellation does not end the runner: the session stays
\* registered, the runner sleeps one period and starts its next iteration;
\* when the driver stops failing the group is polled again (unless the runner
\* is cancelled meanwhile).
C33_SurvivesErrors ==
    /\ [][C33_StepBacksOff /\ C33_StepNextIteration]_vars
    /\ \A t \in 1..MaxTasks :
          (t \in DOMAIN tasks /\ tasks[t].pc = "backoff")
              ~> (PolledBy(t) \/ Terminated(tasks, t) \/ tasks[t].cancelled)

\* C33 witness: every read before FailUntil raised; a runner has polled its
\* group after its second back-off, on the session it opened at its start,
\* and printed the first frame of the worker
C33_Witness ==
    /\ now = FailUntil * TickMs
    /\ polling
    /\ \E t \in DOMAIN tasks :
          /\ PolledBy(t)
          /\ hist.ev.frames # <<>>
          /\ stdout = hist.ev.frames
          /\ tasks[t].group_id \in DOMAIN group_connections
          /\ group_connections[tasks[t].group_id] = tasks[t].group_plc

-----------------------------------------------------------------------------
(* Driver calls and the event loop                                          *)

\* runner t is suspended on a driver call that runs in the executor: other
\* tasks of the event loop take steps until the call returns
InExecutor(t) == t \in DOMAIN tasks /\ tasks[t].pc = "reading" /\ ~ tasks[t].cancelled

\* the step runs LogixDriver.open() for runner t: at its start, in a later
\* attempt, or when the session is recreated
OpensSession(t) ==
    \/ \E o \in OpenOutcomes : RunnerStart(t, o)
    \/ \E o \in OpenOutcomes : RunnerRetry(t, o)
    \/ \E o \in OpenOutcomes : polling /\ RunnerRecover(t, o)

\* the step ends a batch read of runner t
EndsRead(t) ==
    \/ \E results \in ReadOutcomes(t, Vals, FALSE) : RunnerReadReturn(t, results)
    \/ \E recoverable \in BOOLEAN : RunnerReadRaise(t, recoverable)

\* every batch read that ends was running in the executor
C34_ReadsOffloaded ==
    [][\A t \in DOMAIN tasks : EndsRead(t) => InExecutor(t)]_vars

\* C34: no blocking driver call of a runner (the open at its start, the batch
\* read of an iteration, the open of the recovery) runs on the event loop:
\* the call is outstanding in a state of its own, in which the other runners
\* and the RPC reader can take steps, and a later step ends it.
C34_DriverCallsOffloaded ==
    [][\A t \in DOMAIN tasks : (OpensSession(t) \/ EndsRead(t)) => InExecutor(t)]_vars

-----------------------------------------------------------------------------
(* Groups without a resolvable tag                                          *)

\* the clock stops after MaxTimeIdle ticks
MaxTimeIdle == 2

\* a group whose tag_ids is empty
ReqEmptyGroup ==
    [tags |-> <<>>,
     poll_groups |-> << [group_id |-> 1, rate_ms |-> TickMs, tag_ids |-> <<>>] >>]

\* a group none of whose tag_ids is in the tag map
ReqUnknownTags ==
    [tags |-> << [tag_id |-> 1, tag_name |-> <<"T">>, poll_group_id |-> 1] >>,
     poll_groups |-> << [group_id |-> 1, rate_ms |-> TickMs, tag_ids |-> <<7, 8>>] >>]

\* an empty group beside a group that has a tag
ReqIdleBeside ==
    [tags |-> << [tag_id |-> 1, tag_name |-> <<"T">>, poll_group_id |-> 2] >>,
     poll_groups |-> << [group_id |-> 1, rate_ms |-> TickMs, tag_ids |-> <<>>],
                        [group_id |-> 2, rate_ms |-> TickMs, tag_ids |-> <<1>>] >>]

ReqsIdle == {ReqEmptyGroup, ReqUnknownTags, ReqIdleBeside}

NextIdle ==
    \/ ~ connected /\ RpcConnect(DEFAULT_MAX_TAGS_PER_GROUP,
                                 DEFAULT_MAX_CONCURRENT_CONNECTIONS, TRUE)
    \/ \E req \in ReqsIdle : hist.installs = 0 /\ RpcSubscribePolling(req)
    \/ \E t \in DOMAIN tasks, o \in OpenOutcomes : RunnerStart(t, o)
    \/ \E t \in DOMAIN tasks, o \in OpenOutcomes : RunnerRetry(t, o)
    \/ \E t \in DOMAIN tasks : \E results \in ReadOutcomes(t, Vals, FALSE) :
          RunnerReadReturn(t, results)
    \/ \E t \in DOMAIN tasks : RunnerWake(t)
    \/ TickTimed(MaxTimeIdle)

SpecIdle == Init /\ [][NextIdle]_vars

\* group_id is a group no tag_id of which is in the tag map
IdleGroup(group_id) ==
    /\ DictHas(poll_groups, group_id)
    /\ \A tag_id \in Range(DictGet(poll_groups, group_id).tag_ids) :
          tag_id \notin DOMAIN tag_map

\* runner t belongs to such a group
IdleRunner(t) == t \in DOMAIN tasks /\ IdleGroup(tasks[t].group_id)

\* the runner of a group without resolvable tags submits no read: each of its
\* iterations sleeps one period
C35_StepNoRead ==
    \A t \in DOMAIN tasks :
        (IdleRunner(t) /\ t \in DOMAIN tasks' /\ tasks'[t] # tasks[t]) =>
            /\ tasks'[t].pc # "reading"
            /\ tasks'[t].pc = "idle_sleep" => tasks'[t].wake_at = now + tasks'[t].rate_ms

\* a step of such a runner opens no driver session
C35_StepNoSession ==
    \A t \in DOMAIN tasks :
        (IdleRunner(t) /\ \E o \in OpenOutcomes : RunnerStart(t, o) \/ RunnerRetry(t, o)) =>
            /\ sessions' = sessions
            /\ group_connections' = group_connections

\* the part of the statement about reads
C35_IdleGroupNeverReads == [][C35_StepNoRead]_vars

\* C35: the runner of a group with no resolvable tag (tag_ids empty, or none
\* of them in the tag map) does no I/O: it opens no driver session and submits
\* no read; each of its iterations only sleeps one period.
C35_IdleGroupNoIO == [][C35_StepNoRead /\ C35_StepNoSession]_vars

-----------------------------------------------------------------------------
(* The lines of stdout                                                      *)

\* a whole telemetry line
IsFrameLine(l) == DOMAIN l = {"tag_id", "v", "q", "ts"}

\* a whole response line
IsResponseLine(l) ==
    \/ DOMAIN l = {"jsonrpc", "result", "id"}
    \/ DOMAIN l = {"jsonrpc", "error", "id"}

\* the runners that write to stdout in the step
FrameWriters ==
    {t \in DOMAIN tasks : hist'.ev.kind = "poll" /\ hist'.ev.task = t
                          /\ hist'.ev.frames # <<>>}

\* the RPC reader writes to stdout in the step
ReaderWrites == hist'.ev.kind \in {"rpc", "line"} /\ reply' # NoReply

\* what a step writes is the whole lines of one writer: the frames of one
\* iteration of one runner, each for a tag of its group, or one response
C36_StepOneWriter ==
    /\ Cardinality(FrameWriters) <= 1
    /\ ~ (FrameWriters # {} /\ ReaderWrites)
    /\ \A t \in FrameWriters :
          /\ stdout' = Window(stdout \o hist'.ev.frames)
          /\ reply' = reply
          /\ \A i \in 1..Len(hist'.ev.frames) :
                /\ IsFrameLine(hist'.ev.frames[i])
                /\ hist'.ev.frames[i].tag_id \in Range(tasks[t].tag_ids)
    /\ FrameWriters = {} => stdout' = stdout
    /\ ReaderWrites => IsResponseLine(reply')
    /\ ~ ReaderWrites => reply' = reply

\* every line on stdout is whole
WholeLines ==
    /\ \A i \in 1..Len(stdout) : IsFrameLine(stdout[i])
    /\ reply # NoReply => IsResponseLine(reply)

-----------------------------------------------------------------------------
(* The tags a read plan covers                                              *)

\* the entries of a plan that map to a tag_id: <<token, index, tag_id>>, with
\* index -1 for a scalar or sparse token
PlanEntries(plan) ==
    {<<plan.tag_name_to_id[i][1], -1, plan.tag_name_to_id[i][2]>> :
        i \in 1..Len(plan.tag_name_to_id)} \cup
    UNION {{<<plan.array_base_to_info[i][1],
              plan.array_base_to_info[i][2].index_map[j][1],
              plan.array_base_to_info[i][2].index_map[j][2]>> :
                j \in 1..Len(plan.array_base_to_info[i][2].index_map)} :
           i \in 1..Len(plan.array_base_to_info)}

\* the plan maps every tag of tag_ids that is in the tag map by exactly one
\* entry, and no token or index to two tags
Covers(plan, tag_ids, tmap) ==
    /\ \A tag_id \in Range(tag_ids) :
          tag_id \in DOMAIN tmap =>
              Cardinality({e \in PlanEntries(plan) : e[3] = tag_id}) = 1
    /\ \A e, f \in PlanEntries(plan) : (e[1] = f[1] /\ e[2] = f[2]) => e[3] = f[3]

\* C37: in every poll iteration each tag_id of the group that is in the tag
\* map is mapped by exactly one entry of the read plan (a scalar token, a
\* sparse token, or one index of a full-array token), and no token or index
\* maps to two tag_ids, also when tags of the group share a name.
C37_PlanCoverage ==
    \A t \in DOMAIN tasks :
        (tasks[t].pc = "reading" /\ ~ tasks[t].cancelled) =>
            Covers(tasks[t].plan, tasks[t].tag_ids, tag_map)

\* the same for the groups whose tags carry different names and name
\* different array elements
C37_PlanCoverageDistinct ==
    \A t \in DOMAIN tasks :
        (tasks[t].pc = "reading" /\ ~ tasks[t].cancelled /\ DistinctEntries(t)) =>
            Covers(tasks[t].plan, tasks[t].tag_ids, tag_map)

-----------------------------------------------------------------------------
(* Sessions opened by runners and the session table                         *)

\* the sessions on which a runner called open() and nothing called close()
OpenedNotClosed == {s \in DOMAIN sessions : sessions[s] \in {"connected", "unconnected"}}

\* the sessions among them for which open() left the driver connected
ConnectedNotClosed == {s \in DOMAIN sessions : sessions[s] = "connected"}

\* session s is registered in the session table
Registered(s) == \E g \in DOMAIN group_connections : group_connections[g] = s

\* C38: no session of a group leaks: whenever an RPC handler can run, every
\* driver session on which a runner called open() and on which close() was
\* not called is registered in group_connections under that runner's group,
\* so that the next stop_polling closes it; also when open() returned and the
\* session reports not connected.
C38_NoSessionLeak == \A s \in OpenedNotClosed : Registered(s)

\* the same for the sessions whose open() left them connected
C38_NoConnectedLeak == \A s \in ConnectedNotClosed : Registered(s)

-----------------------------------------------------------------------------
(* disconnect while runners poll                                            *)

\* the clock stops after MaxTimeDisc ticks
MaxTimeDisc == 3

NextDisc ==
    \/ ~ connected /\ RpcConnect(DEFAULT_MAX_TAGS_PER_GROUP,
                                 DEFAULT_MAX_CONCURRENT_CONNECTIONS, TRUE)
    \/ connected /\ RpcDisconnect
    \/ hist.installs = 0 /\ RpcSubscribePolling(ReqMix)
    \/ \E t \in DOMAIN tasks : RunnerStart(t, "ok")
    \/ \E t \in DOMAIN tasks : \E results \in ReadOutcomes(t, Vals, FALSE) :
          RunnerReadReturn(t, results)
    \/ \E t \in DOMAIN tasks : RunnerWake(t)
    \/ TickTimed(MaxTimeDisc)

SpecDisc == Init /\ [][NextDisc]_vars

\* the step served a disconnect request
Disconnects == hist'.ev = RpcEvent("disconnect", TRUE)

\* disconnect clears the cache and leaves the polling state alone
C39_StepDisconnect ==
    Disconnects =>
        /\ ~ connected'
        /\ last_values' = EmptyFun
        /\ "result" \in DOMAIN reply'
        /\ UNCHANGED <<polling, poll_tasks, tasks, group_connections, sessions,
                       poll_groups, tag_map, tag_configs, stdout>>

\* a sample of a tag that has no record in the cache is published, whatever
\* its value
C39_StepFirstSample ==
    hist'.ev.kind = "poll" =>
        \A i \in 1..Len(hist'.ev.samples) :
            LET s == hist'.ev.samples[i]
            IN  (/\ s.tag_id \notin DOMAIN last_values
                 /\ \A j \in 1..(i - 1) : hist'.ev.samples[j].tag_id # s.tag_id)
                    => s.published

\* the runners of the subscription live on, connected or not: none is
\* cancelled, none has ended
RunnersGoOn ==
    polling =>
        \A g \in DOMAIN poll_tasks :
            /\ poll_tasks[g] \in DOMAIN tasks
            /\ ~ tasks[poll_tasks[g]].cancelled
            /\ tasks[poll_tasks[g]].pc # "done"

\* C39: disconnect closes the default session and clears the last-value
\* cache; it leaves the polling flag, the task table, the group sessions, the
\* group map and the tag map as they are, so the runners started before it
\* keep polling and printing frames, and the next sample of each tag after it
\* is published as a first sample.
C39_DisconnectLeavesPolling ==
    [][C39_StepDisconnect /\ C39_StepFirstSample]_vars /\ []RunnersGoOn

\* C39 witness: after a disconnect a runner has printed again, for a tag
\* filtered on change, the value it had printed before
C39_Witness ==
    /\ ~ connected
    /\ polling
    /\ hist.ev.kind = "poll"
    /\ \E i, j \in 1..Len(stdout) :
          /\ i < j
          /\ stdout[i].tag_id = stdout[j].tag_id
          /\ stdout[i].v = stdout[j].v
          /\ stdout[i].q = stdout[j].q
          /\ stdout[i].ts < stdout[j].ts
          /\ stdout[j].ts = now
          /\ tag_configs[stdout[j].tag_id].on_change_enabled

-----------------------------------------------------------------------------
(* subscribe_polling on a worker that is not connected                      *)

\* the runs of SpecDisc, with subscribe_polling requests also while the
\* worker is not connected
NextOffline ==
    \/ NextDisc
    \/ \E req \in Reqs : ~ connected /\ RpcSubscribePolling(req)

SpecOffline == Init /\ [][NextOffline]_vars

\* the step served a subscribe_polling request
Subscribes == hist'.ev.kind = "rpc" /\ hist'.ev.method = "subscribe_polling"

\* a subscribe_polling served while not connected is answered with the error
\* -32000 and leaves the worker and its runners as they were
C40_StepRefused ==
    (Subscribes /\ ~ connected) =>
        /\ ~ hist'.ev.ok
        /\ "error" \in DOMAIN reply'
        /\ "result" \notin DOMAIN reply'
        /\ reply'.error.code = -32000
        /\ UNCHANGED <<connected, tag_map, tag_configs, poll_groups, last_values,
                       polling, poll_tasks, tasks, group_connections, sessions,
                       stdout>>

\* C40: subscribe_polling called while the worker is not connected fails with
\* the error code -32000 and changes nothing: tag map, config map, group map,
\* last-value cache, polling flag, task table and group sessions are as
\* before, and the runners of an earlier subscription are neither cancelled
\* nor restarted.
C40_RefusedWhenNotConnected == [][C40_StepRefused]_vars

\* C40 witness: a subscribe_polling was refused while the runner of an earlier
\* subscription, which has printed since the disconnect, has a read in flight
C40_Witness ==
    /\ hist.ev = RpcEvent("subscribe_polling", FALSE)
    /\ ~ connected
    /\ polling
    /\ last_values # EmptyFun
    /\ \E t \in DOMAIN tasks : tasks[t].pc = "reading" /\ ~ tasks[t].cancelled
    /\ "error" \in DOMAIN reply

=============================================================================
